---- MODULE Spec2Model ----
(***************************************************************************)
(* Model of the debate engine of Kullendorff/debateAI: the round loop of   *)
(* ConsensusEngine (phoneAFriend, continueDebate, continueRound,           *)
(* conductRound), the session store and the cost tracker.                  *)
(*                                                                         *)
(* Units: money is counted in whole dollars, consensus scores in           *)
(* hundredths (0.85 is 85).  One session is followed from its creation;    *)
(* timestamps (created_at, updated_at) are not part of this model.         *)
(***************************************************************************)
EXTENDS Integers, Sequences, FiniteSets, TLC

(***************************************************************************)
(* Bounds of the model                                                     *)
(***************************************************************************)
\* rounds a session may hold before the model stops issuing new rounds
RoundCap == 3
\* largest max_rounds a caller passes to phoneAFriend
MaxRoundsParam == 2
\* operations a caller runs on the session, the start included
MaxOps == 2
\* timestamps (milliseconds) a stored session may carry
MaxInstant == 2
\* rounds and peer review summaries of a session handed to the store
MaxAttached == 2
\* words of a text: a reviewer's answer, a participant's response
MaxWords == 4
\* tokens of the three responses handed to the consensus analyzer, together
MaxTokens == 4

\* the last reading of the clock (Date.now()) while a cleanup runs
MaxClock == 3

(***************************************************************************)
(* Program constants                                                       *)
(***************************************************************************)
\* "if (budgetCheck.currentCost >= 10.0)": the emergency brake
HardCeiling == 10
\* "consensus_score >= 0.85", in hundredths
ConsensusThreshold == 85
\* continue_2_rounds / continue_until_consensus
TwoRounds == 2
UntilConsensusRounds == 10
\* "Math.min(10, Math.max(1, resolvabilityScore))"
ResolvabilityMin == 1
ResolvabilityMax == 10

Providers == {"openai", "gemini", "claude"}

Statuses == {"active", "consensus", "deadlock", "paused", "failed",
             "user_accepted", "manually_resolved"}

\* values the caller passes as max_cost_usd
MaxCosts == {5, 20}
\* values the consensus scorer returns for a round
Scores == {60, 85, 90}

NoSession == [id |-> "none"]
NoAnswer == [preamble |-> FALSE, text |-> ""]

(***************************************************************************)
(* Participant capability: generateResponse(prompt)                        *)
(***************************************************************************)
\* cost of one successful call of provider p
CallCost(p) == CASE p = "openai" -> 1 [] p = "gemini" -> 2 [] p = "claude" -> 7

\* the reply of provider p to the prompt of round r
Reply(p, r) ==
  [content     |-> IF r % 2 = 1
                   THEN (CASE p = "openai" -> "aaa" [] p = "gemini" -> "bb"
                           [] p = "claude" -> "cccc")
                   ELSE (CASE p = "openai" -> "dd" [] p = "gemini" -> "eeee"
                           [] p = "claude" -> "ffff"),
   confidence  |-> CASE p = "openai" -> 90 [] p = "gemini" -> 75
                     [] p = "claude" -> 60,
   model       |-> p,
   tokens_used |-> 100,
   cost_usd    |-> CallCost(p)]

\* conductRound's catch block: the sentinel of a failed participant
ErrorResponse(p) ==
  [content     |-> "Error: Unable to get response from " \o p,
   confidence  |-> 0,
   model       |-> "error",
   tokens_used |-> 0,
   cost_usd    |-> 0]

IsErrorResponse(r) == r.confidence = 0 /\ r.model = "error"

\* a call that is in flight, and a call that was not issued
Pending ==
  [content |-> "", confidence |-> 0, model |-> "pending", tokens_used |-> 0,
   cost_usd |-> 0]
NotCalled ==
  [content |-> "", confidence |-> 0, model |-> "none", tokens_used |-> 0,
   cost_usd |-> 0]

(***************************************************************************)
(* Cost tracker (CostController)                                           *)
(***************************************************************************)
\* addCost: the tracker's total after a call costing c is recorded
addCost(total, c) == total + c

\* checkBudgetLimit(sessionId, cap)
checkBudgetLimit(total, cap) ==
  [withinBudget     |-> total < cap,
   currentCost      |-> total,
   warningThreshold |-> 4 * total >= 3 * cap]

(***************************************************************************)
(* Helpers of ConsensusEngine                                              *)
(***************************************************************************)
Last(s) == s[Len(s)]

\* session.chairman_synthesis while it is undefined
NoSynthesis == [chairman |-> "none", cost_usd |-> 0]

\* createSession: params.max_rounds || 3, params.max_cost_usd || 1.0; the
\* optional peer_reviews and chairman_synthesis are left undefined, which the
\* model writes as the empty list and NoSynthesis
createSession(max_rounds, max_cost_usd) ==
  [id               |-> "s1",
   rounds           |-> << >>,
   status           |-> "active",
   max_rounds       |-> IF max_rounds = 0 THEN 3 ELSE max_rounds,
   max_cost_usd     |-> IF max_cost_usd = 0 THEN 1 ELSE max_cost_usd,
   current_cost_usd |-> 0,
   peer_reviews       |-> << >>,
   chairman_synthesis |-> NoSynthesis]

\* a slip: the comparison the other way round
Longer_Shorter(a, b) == IF Len(a) < Len(b) THEN a ELSE b

\* responses.reduce((a, b) => a.length > b.length ? a : b)
Longer(a, b) == IF Len(a) > Len(b) THEN a ELSE b

\* a slip: the first round's response instead of the last round's
selectedResponse_FirstRound(s, selected_ai) == s.rounds[1].responses[selected_ai]

\* continueDebate, accept_answer: lastRound.responses[params.selected_ai]
selectedResponse(s, selected_ai) == Last(s.rounds).responses[selected_ai]

\* a final answer that is a response's content, verbatim
Verbatim(content) == [preamble |-> FALSE, text |-> content]

\* synthesizeFinalAnswer(round): the longest content in the fixed preamble
synthesizeFinalAnswer(rnd) ==
  [preamble |-> TRUE,
   text     |-> Longer(Longer(rnd.responses["openai"].content,
                              rnd.responses["gemini"].content),
                       rnd.responses["claude"].content)]

\* conductRound: "if (failedProviders > 1) throw"
failedProviders(cs) == Cardinality({p \in Providers : IsErrorResponse(cs[p])})

\* a slip: every failure is fatal
QuorumFailed_AnyFailure(n) == n > 0

QuorumFailed(n) == n > 1

\* conductRound: totalCost += response.cost_usd over the three results
totalCost(cs) ==
  cs["openai"].cost_usd + cs["gemini"].cost_usd + cs["claude"].cost_usd

totalTokens(cs) ==
  cs["openai"].tokens_used + cs["gemini"].tokens_used + cs["claude"].tokens_used

\* the DebateRound conductRound returns
NewRound(roundNumber, cs, score) ==
  [round_number    |-> roundNumber,
   responses       |-> cs,
   consensus_score |-> score,
   tokens_used     |-> totalTokens(cs),
   cost_usd        |-> totalCost(cs)]

(***************************************************************************)
(* State                                                                   *)
(***************************************************************************)
VARIABLES
  store,      \* the session file of the store, or NoSession
  session,    \* the session object the running operation works on
  tracker,    \* the cost tracker's total for the session
  pc,         \* position of the running operation
  op,         \* the running (or last) operation
  round,      \* the loop variable "round"
  maxRounds,  \* the loop's upper limit
  calls,      \* the three participant calls of the round in flight
  result,     \* how the last operation ended
  ops,        \* operations started on the session so far
  responseMapping  \* PeerReviewSystem.responseMapping: label -> provider

vars == <<store, session, tracker, pc, op, round, maxRounds, calls, result,
          ops, responseMapping>>

\* "new Map()": the mapping before any call has anonymized
NoMapping == [l \in {"A", "B", "C"} |-> "none"]

NoCalls == [p \in Providers |-> NotCalled]
NoOp == [name |-> "none", mode |-> "none", selected_ai |-> "none", conducted |-> 0]
NoResult == [outcome |-> "none", status |-> "none", final_answer |-> NoAnswer]

Returned(status, answer) ==
  [outcome |-> "returned", status |-> status, final_answer |-> answer]
Raised(why) ==
  [outcome |-> "error", status |-> why, final_answer |-> NoAnswer]

Init ==
  /\ store = NoSession
  /\ session = NoSession
  /\ tracker = 0
  /\ pc = "idle"
  /\ op = NoOp
  /\ round = 0
  /\ maxRounds = 0
  /\ calls = NoCalls
  /\ result = NoResult
  /\ ops = 0
  /\ responseMapping = NoMapping

(***************************************************************************)
(* phoneAFriend, up to the first round                                     *)
(***************************************************************************)
phoneAFriend(max_rounds, max_cost_usd, interactive) ==
  /\ pc = "idle"
  /\ store = NoSession
  /\ LET s == createSession(max_rounds, max_cost_usd) IN
       /\ session' = s
       /\ store' = s
       /\ tracker' = 0
       /\ maxRounds' = IF interactive THEN 1 ELSE s.max_rounds
       /\ round' = Len(s.rounds) + 1
  /\ op' = [name |-> "phoneAFriend",
            mode |-> IF interactive THEN "interactive" ELSE "batch",
            selected_ai |-> "none", conducted |-> 0]
  /\ pc' = "loop"
  /\ result' = NoResult
  /\ ops' = ops + 1
  /\ UNCHANGED calls
  /\ UNCHANGED responseMapping

(***************************************************************************)
(* conductRound                                                            *)
(***************************************************************************)
\* loop test passed: conductRound issues the three participant calls
StartRound ==
  /\ pc = "loop"
  /\ round <= maxRounds
  /\ Len(session.rounds) < RoundCap
  /\ calls' = [p \in Providers |-> Pending]
  /\ pc' = "calls"
  /\ UNCHANGED <<store, session, tracker, op, round, maxRounds, result,
                 ops>>
  /\ UNCHANGED responseMapping

\* one participant call resolves with a response; its cost goes to the tracker
CallSucceeds(p) ==
  /\ pc = "calls"
  /\ calls[p] = Pending
  /\ calls' = [calls EXCEPT ![p] = Reply(p, round)]
  /\ tracker' = addCost(tracker, Reply(p, round).cost_usd)
  /\ UNCHANGED <<store, session, pc, op, round, maxRounds, result,
                 ops>>
  /\ UNCHANGED responseMapping

\* one participant call fails; the catch block substitutes the sentinel
CallFails(p) ==
  /\ pc = "calls"
  /\ calls[p] = Pending
  /\ calls' = [calls EXCEPT ![p] = ErrorResponse(p)]
  /\ UNCHANGED <<store, session, tracker, pc, op, round, maxRounds, result,
                 ops>>
  /\ UNCHANGED responseMapping

\* a slip: the join returns as soon as two calls have resolved
AllResolved_TwoOfThree ==
  Cardinality({p \in Providers : calls[p] # Pending /\ calls[p] # NotCalled}) >= 2

\* "await Promise.all(responsePromises)": every call has resolved
AllResolved == \A p \in Providers : calls[p] # Pending /\ calls[p] # NotCalled

\* a slip: the round's cost is added to the session before the quorum test
RoundFailsQuorum_CostFirst ==
  /\ pc = "calls"
  /\ AllResolved
  /\ QuorumFailed(failedProviders(calls))
  /\ session' = [session EXCEPT
                   !.current_cost_usd = session.current_cost_usd + totalCost(calls)]
  /\ result' = Raised("quorum")
  /\ pc' = "done"
  /\ round' = 0
  /\ maxRounds' = 0
  /\ calls' = NoCalls
  /\ UNCHANGED <<store, tracker, op, ops>>
  /\ UNCHANGED responseMapping

\* Promise.all resolved with two or three failures: conductRound throws and
\* the operation ends with that error
RoundFailsQuorum ==
  /\ pc = "calls"
  /\ AllResolved
  /\ QuorumFailed(failedProviders(calls))
  /\ result' = Raised("quorum")
  /\ pc' = "done"
  /\ round' = 0
  /\ maxRounds' = 0
  /\ calls' = NoCalls
  /\ UNCHANGED <<store, session, tracker, op, ops>>
  /\ UNCHANGED responseMapping

\* a slip: the round is appended but its cost is not added to the session
WithRound_CostNotAdded(s, rnd) ==
  [s EXCEPT !.rounds = Append(s.rounds, rnd)]

\* the session after conductRound returned and the caller pushed the round
WithRound(s, rnd) ==
  [s EXCEPT !.current_cost_usd = s.current_cost_usd + rnd.cost_usd,
            !.rounds = Append(s.rounds, rnd)]

\* Promise.all resolved with quorum: the round is scored, its cost is added
\* to the session, the caller appends it and writes the session to the store
RoundCompletes(score) ==
  /\ pc = "calls"
  /\ AllResolved
  /\ ~QuorumFailed(failedProviders(calls))
  /\ session' = WithRound(session, NewRound(round, calls, score))
  /\ store' = session'
  /\ op' = [op EXCEPT !.conducted = op.conducted + 1]
  /\ calls' = NoCalls
  /\ pc' = "check"
  /\ UNCHANGED <<tracker, round, maxRounds, result, ops>>
  /\ UNCHANGED responseMapping

(***************************************************************************)
(* How an operation ends                                                   *)
(***************************************************************************)
\* a slip: the status is set but the session is not written to the store
FinishWith_NotPersisted(s, status, res) ==
  /\ session' = [s EXCEPT !.status = status]
  /\ store' = store
  /\ result' = res
  /\ pc' = "done"
  /\ round' = 0
  /\ maxRounds' = 0

\* the operation sets a status, persists the session and returns
FinishWith(s, status, res) ==
  /\ session' = [s EXCEPT !.status = status]
  /\ store' = session'
  /\ result' = res
  /\ pc' = "done"
  /\ round' = 0
  /\ maxRounds' = 0

\* the operation returns without touching the session
ReturnOnly(res) ==
  /\ result' = res
  /\ pc' = "done"
  /\ round' = 0
  /\ maxRounds' = 0
  /\ UNCHANGED <<session, store>>

\* a slip: the loop variable is advanced twice
NextIteration_SkipsOne ==
  /\ round' = round + 2
  /\ pc' = "loop"
  /\ UNCHANGED <<session, store, maxRounds, result>>

\* the loop goes on with the next round
NextIteration ==
  /\ round' = round + 1
  /\ pc' = "loop"
  /\ UNCHANGED <<session, store, maxRounds, result>>

\* "EMERGENCY BRAKE": status failed, persisted, error thrown
EmergencyStop == FinishWith(session, "failed", Raised("emergency_stop"))

(***************************************************************************)
(* phoneAFriend after a round (lines 91-162) and after the loop            *)
(***************************************************************************)
\* a slip: the interactive return after the first round is left out
phoneAFriendAfterRound_NoPause ==
  /\ pc = "check"
  /\ op.name = "phoneAFriend"
  /\ LET roundResult == Last(session.rounds)
         budgetCheck == checkBudgetLimit(tracker, session.max_cost_usd)
     IN IF budgetCheck.currentCost >= HardCeiling
        THEN EmergencyStop
        ELSE IF ~budgetCheck.withinBudget
        THEN FinishWith(session, "deadlock",
                        Returned("intervention_needed", NoAnswer))
        ELSE IF roundResult.consensus_score >= ConsensusThreshold
        THEN FinishWith(session, "consensus",
               Returned("consensus", synthesizeFinalAnswer(roundResult)))
        ELSE NextIteration
  /\ UNCHANGED <<tracker, op, calls, ops>>
  /\ UNCHANGED responseMapping

phoneAFriendAfterRound ==
  /\ pc = "check"
  /\ op.name = "phoneAFriend"
  /\ LET roundResult == Last(session.rounds)
         budgetCheck == checkBudgetLimit(tracker, session.max_cost_usd)
     IN IF op.mode = "interactive"
        THEN FinishWith(session, "paused",
               IF roundResult.consensus_score >= ConsensusThreshold
               THEN Returned("consensus", synthesizeFinalAnswer(roundResult))
               ELSE Returned("intervention_needed", NoAnswer))
        ELSE IF budgetCheck.currentCost >= HardCeiling
        THEN EmergencyStop
        ELSE IF ~budgetCheck.withinBudget
        THEN FinishWith(session, "deadlock",
                        Returned("intervention_needed", NoAnswer))
        ELSE IF roundResult.consensus_score >= ConsensusThreshold
        THEN FinishWith(session, "consensus",
               Returned("consensus", synthesizeFinalAnswer(roundResult)))
        ELSE NextIteration
  /\ UNCHANGED <<tracker, op, calls, ops>>
  /\ UNCHANGED responseMapping

\* the loop ran out of rounds: "No consensus reached"
phoneAFriendAfterLoop ==
  /\ pc = "loop"
  /\ op.name = "phoneAFriend"
  /\ round > maxRounds
  /\ FinishWith(session, "deadlock", Returned("intervention_needed", NoAnswer))
  /\ UNCHANGED <<tracker, op, calls, ops>>
  /\ UNCHANGED responseMapping

(***************************************************************************)
(* continueDebate                                                          *)
(***************************************************************************)
\* a slip: one round more than the instruction names
additionalRounds_OneMore(instruction) ==
  IF instruction = "continue_2_rounds" THEN TwoRounds + 1
  ELSE IF instruction = "continue_until_consensus" THEN UntilConsensusRounds + 1
  ELSE 0

\* additionalRounds of a continuation instruction
additionalRounds(instruction) ==
  IF instruction = "continue_2_rounds" THEN TwoRounds
  ELSE IF instruction = "continue_until_consensus" THEN UntilConsensusRounds
  ELSE 0

\* accept_answer with a selected participant
continueDebateAccept(selected_ai) ==
  /\ pc = "idle"
  /\ store # NoSession
  /\ ops < MaxOps
  /\ ops' = ops + 1
  /\ op' = [name |-> "continueDebate", mode |-> "accept_answer",
            selected_ai |-> selected_ai, conducted |-> 0]
  /\ IF Len(store.rounds) = 0
     THEN /\ session' = store
          /\ result' = Raised("no_rounds")
          /\ pc' = "done"
          /\ UNCHANGED <<store, round, maxRounds>>
     ELSE FinishWith(store, "user_accepted",
            Returned("user_accepted",
                     Verbatim(selectedResponse(store, selected_ai).content)))
  /\ UNCHANGED <<tracker, calls>>
  /\ UNCHANGED responseMapping

\* synthesize_and_stop; without a round synthesizeFinalAnswer(undefined) throws
continueDebateSynthesize ==
  /\ pc = "idle"
  /\ store # NoSession
  /\ ops < MaxOps
  /\ ops' = ops + 1
  /\ op' = [name |-> "continueDebate", mode |-> "synthesize_and_stop",
            selected_ai |-> "none", conducted |-> 0]
  /\ IF Len(store.rounds) = 0
     THEN /\ session' = store
          /\ result' = Raised("type_error")
          /\ pc' = "done"
          /\ UNCHANGED <<store, round, maxRounds>>
     ELSE FinishWith(store, "manually_resolved",
            Returned("manually_resolved",
                     synthesizeFinalAnswer(Last(store.rounds))))
  /\ UNCHANGED <<tracker, calls>>
  /\ UNCHANGED responseMapping

\* continue_2_rounds and continue_until_consensus, up to the loop
continueDebate(instruction) ==
  /\ pc = "idle"
  /\ store # NoSession
  /\ ops < MaxOps
  /\ ops' = ops + 1
  /\ instruction \in {"continue_2_rounds", "continue_until_consensus"}
  /\ session' = [store EXCEPT
                   !.max_rounds = Len(store.rounds) + additionalRounds(instruction)]
  /\ maxRounds' = session'.max_rounds
  /\ round' = Len(store.rounds) + 1
  /\ op' = [name |-> "continueDebate", mode |-> instruction,
            selected_ai |-> "none", conducted |-> 0]
  /\ pc' = "loop"
  /\ result' = NoResult
  /\ UNCHANGED <<store, tracker, calls>>
  /\ UNCHANGED responseMapping

\* lines 242-268
continueDebateAfterRound ==
  /\ pc = "check"
  /\ op.name = "continueDebate"
  /\ LET roundResult == Last(session.rounds)
         budgetCheck == checkBudgetLimit(tracker, session.max_cost_usd)
     IN IF roundResult.consensus_score >= ConsensusThreshold
        THEN FinishWith(session, "consensus",
               Returned("consensus", synthesizeFinalAnswer(roundResult)))
        ELSE IF budgetCheck.currentCost >= HardCeiling
        THEN EmergencyStop
        ELSE IF ~budgetCheck.withinBudget
        THEN ReturnOnly(Returned("intervention_needed", NoAnswer))
        ELSE NextIteration
  /\ UNCHANGED <<tracker, op, calls, ops>>
  /\ UNCHANGED responseMapping

\* "Still no consensus"
continueDebateAfterLoop ==
  /\ pc = "loop"
  /\ op.name = "continueDebate"
  /\ round > maxRounds
  /\ ReturnOnly(Returned("intervention_needed", NoAnswer))
  /\ UNCHANGED <<tracker, op, calls, ops>>
  /\ UNCHANGED responseMapping

(***************************************************************************)
(* continueRound                                                           *)
(***************************************************************************)
continueRoundFinish ==
  /\ pc = "idle"
  /\ store # NoSession
  /\ ops < MaxOps
  /\ ops' = ops + 1
  /\ op' = [name |-> "continueRound", mode |-> "finish_debate",
            selected_ai |-> "none", conducted |-> 0]
  /\ IF Len(store.rounds) = 0
     THEN /\ session' = store
          /\ result' = Raised("no_rounds")
          /\ pc' = "done"
          /\ UNCHANGED <<store, round, maxRounds>>
     ELSE FinishWith(store, "consensus",
            Returned("consensus", synthesizeFinalAnswer(Last(store.rounds))))
  /\ UNCHANGED <<tracker, calls>>
  /\ UNCHANGED responseMapping

\* next_round and auto_complete, up to the loop
continueRound(action) ==
  /\ pc = "idle"
  /\ store # NoSession
  /\ ops < MaxOps
  /\ ops' = ops + 1
  /\ action \in {"next_round", "auto_complete"}
  /\ session' = store
  /\ maxRounds' = IF action = "next_round" THEN Len(store.rounds) + 1
                  ELSE store.max_rounds
  /\ round' = Len(store.rounds) + 1
  /\ op' = [name |-> "continueRound", mode |-> action,
            selected_ai |-> "none", conducted |-> 0]
  /\ pc' = "loop"
  /\ result' = NoResult
  /\ UNCHANGED <<store, tracker, calls>>
  /\ UNCHANGED responseMapping

\* "consensus > 0.85" decides the status here
StrongConsensus(score) == score > ConsensusThreshold

\* lines 329-381
\* a slip: the soft cap handled like the hard ceiling
continueRoundAfterRound_SoftCapFails ==
  /\ pc = "check"
  /\ op.name = "continueRound"
  /\ LET roundResult == Last(session.rounds)
         budgetCheck == checkBudgetLimit(tracker, session.max_cost_usd)
     IN IF StrongConsensus(roundResult.consensus_score)
        THEN FinishWith(session, "consensus",
               Returned("consensus", synthesizeFinalAnswer(roundResult)))
        ELSE IF budgetCheck.currentCost >= HardCeiling
        THEN EmergencyStop
        ELSE IF ~budgetCheck.withinBudget
        THEN EmergencyStop
        ELSE IF op.mode = "next_round"
        THEN ReturnOnly(Returned("intervention_needed", NoAnswer))
        ELSE NextIteration
  /\ UNCHANGED <<tracker, op, calls, ops>>
  /\ UNCHANGED responseMapping

continueRoundAfterRound ==
  /\ pc = "check"
  /\ op.name = "continueRound"
  /\ LET roundResult == Last(session.rounds)
         budgetCheck == checkBudgetLimit(tracker, session.max_cost_usd)
     IN IF StrongConsensus(roundResult.consensus_score)
        THEN FinishWith(session, "consensus",
               Returned("consensus", synthesizeFinalAnswer(roundResult)))
        ELSE IF budgetCheck.currentCost >= HardCeiling
        THEN EmergencyStop
        ELSE IF ~budgetCheck.withinBudget
        THEN FinishWith(session, "deadlock",
                        Returned("intervention_needed", NoAnswer))
        ELSE IF op.mode = "next_round"
        THEN ReturnOnly(Returned("intervention_needed", NoAnswer))
        ELSE NextIteration
  /\ UNCHANGED <<tracker, op, calls, ops>>
  /\ UNCHANGED responseMapping

\* "No consensus reached after all rounds"
continueRoundAfterLoop ==
  /\ pc = "loop"
  /\ op.name = "continueRound"
  /\ round > maxRounds
  /\ FinishWith(session, "deadlock", Returned("intervention_needed", NoAnswer))
  /\ UNCHANGED <<tracker, op, calls, ops>>
  /\ UNCHANGED responseMapping

(***************************************************************************)
(* The caller has received the result or the error: the operation's        *)
(* session object, parameters and result are dropped                       *)
(***************************************************************************)
OperationOver ==
  /\ pc = "done"
  /\ pc' = "idle"
  /\ session' = NoSession
  /\ op' = NoOp
  /\ result' = NoResult
  /\ calls' = NoCalls
  /\ UNCHANGED <<store, tracker, round, maxRounds, ops>>
  /\ UNCHANGED responseMapping

Next ==
  \/ \E mr \in 1..MaxRoundsParam, mc \in MaxCosts, i \in BOOLEAN :
       phoneAFriend(mr, mc, i)
  \/ StartRound
  \/ \E p \in Providers : CallSucceeds(p)
  \/ \E p \in Providers : CallFails(p)
  \/ RoundFailsQuorum
  \/ \E sc \in Scores : RoundCompletes(sc)
  \/ phoneAFriendAfterRound
  \/ phoneAFriendAfterLoop
  \/ \E p \in Providers : continueDebateAccept(p)
  \/ continueDebateSynthesize
  \/ \E i \in {"continue_2_rounds", "continue_until_consensus"} :
       continueDebate(i)
  \/ continueDebateAfterRound
  \/ continueDebateAfterLoop
  \/ continueRoundFinish
  \/ \E a \in {"next_round", "auto_complete"} : continueRound(a)
  \/ continueRoundAfterRound
  \/ continueRoundAfterLoop
  \/ OperationOver

Spec == Init /\ [][Next]_vars

(***************************************************************************)
(* Peer review: PeerReviewSystem.conductPeerReview asks the three          *)
(* reviewers one after the other; ConsensusEngine.conductPeerReview stores *)
(* the summary and the costs                                               *)
(***************************************************************************)
(***************************************************************************)
(* FileSessionStore.cleanup (session-store.ts), started by                 *)
(* startPeriodicCleanup through cleanupOldSessions, while an operation of  *)
(* the engine works on session "s1".  "store" is the .sessions directory,  *)
(* "tracker" the clock, "session" the operation's session object, "ops"    *)
(* the number of its writes, "op" the frame of cleanup, "calls" the files  *)
(* that the unlink calls of this cleanup removed.                          *)
(***************************************************************************)
SessionIds == <<"s1", "s2">>

\* a session file, and the path without a file (ENOENT)
SessionFile(ms) == [present |-> TRUE, updated_at |-> ms]
NoFile == [present |-> FALSE, updated_at |-> 0]

\* olderThanMs as the caller passes it
MaxAges == {1, 2}

InitCleanup ==
  /\ store \in [{"s1", "s2"} -> {SessionFile(ms) : ms \in 0..1}]
  /\ tracker \in 0..MaxClock
  /\ session = NoSession
  /\ ops = 0
  /\ pc = "idle"
  /\ op = NoOp
  /\ calls = << >>
  /\ result = NoResult
  /\ round = 0
  /\ maxRounds = 0
  /\ responseMapping = NoMapping

\* time passes
Tick ==
  /\ tracker < MaxClock
  /\ tracker' = tracker + 1
  /\ UNCHANGED <<store, session, pc, op, round, maxRounds, calls, result, ops>>
  /\ UNCHANGED responseMapping

\* an operation of the engine loads the session: sessionStore.get(session_id)
operationGet ==
  /\ session = NoSession
  /\ store["s1"].present
  /\ session' = [id |-> "s1", updated_at |-> store["s1"].updated_at]
  /\ UNCHANGED <<store, tracker, pc, op, round, maxRounds, calls, result, ops>>
  /\ UNCHANGED responseMapping

\* session.updated_at = new Date(); await this.sessionStore.set(id, session):
\* writeFile creates the file when there is none
operationSet ==
  /\ session # NoSession
  /\ ops < MaxOps
  /\ session' = [session EXCEPT !.updated_at = tracker]
  /\ store' = [store EXCEPT ![session.id] = SessionFile(tracker)]
  /\ ops' = ops + 1
  /\ UNCHANGED <<tracker, pc, op, round, maxRounds, calls, result>>
  /\ UNCHANGED responseMapping

\* cleanupOldSessions(maxAgeMs) -> cleanup(olderThanMs): list() reads the
\* directory, then "now" is taken once
cleanupList(olderThanMs) ==
  /\ pc = "idle"
  /\ op' = [name         |-> "cleanup",
            olderThanMs  |-> olderThanMs,
            sessionIds   |-> SelectSeq(SessionIds, LAMBDA id : store[id].present),
            now          |-> tracker,
            session      |-> NoFile,
            deletedCount |-> 0]
  /\ calls' = << >>
  /\ result' = NoResult
  /\ pc' = "get"
  /\ UNCHANGED <<store, session, tracker, round, maxRounds, ops>>
  /\ UNCHANGED responseMapping

\* const session = await this.get(id); if (session) { age = now - updated_at;
\* if (age > olderThanMs) ... }: the file is read and the age is tested
cleanupGet ==
  /\ pc = "get"
  /\ op.sessionIds # << >>
  /\ LET read == store[Head(op.sessionIds)]
     IN IF read.present /\ op.now - read.updated_at > op.olderThanMs
        THEN /\ op' = [op EXCEPT !.session = read]
             /\ pc' = "delete"
        ELSE /\ op' = [op EXCEPT !.sessionIds = Tail(@), !.session = NoFile]
             /\ pc' = "get"
  /\ UNCHANGED <<store, session, tracker, round, maxRounds, calls, result, ops>>
  /\ UNCHANGED responseMapping

\* await this.delete(id); deletedCount++: unlink removes the file that is
\* there now, and ENOENT is ignored
cleanupDelete ==
  /\ pc = "delete"
  /\ LET id == Head(op.sessionIds)
     IN /\ store' = [store EXCEPT ![id] = NoFile]
        /\ calls' = IF store[id].present
                    THEN Append(calls, [id |-> id, updated_at |-> store[id].updated_at,
                                        at |-> tracker])
                    ELSE calls
  /\ op' = [op EXCEPT !.sessionIds = Tail(@), !.session = NoFile,
                      !.deletedCount = @ + 1]
  /\ pc' = "get"
  /\ UNCHANGED <<session, tracker, round, maxRounds, result, ops>>
  /\ UNCHANGED responseMapping

\* return deletedCount
cleanupReturn ==
  /\ pc = "get"
  /\ op.sessionIds = << >>
  /\ result' = [outcome |-> "returned", deletedCount |-> op.deletedCount]
  /\ pc' = "done"
  /\ UNCHANGED <<store, session, tracker, op, round, maxRounds, calls, ops>>
  /\ UNCHANGED responseMapping

\* setInterval(() => cleanupOldSessions(), cleanupInterval): the next run
startPeriodicCleanup ==
  /\ pc = "done"
  /\ pc' = "idle"
  /\ op' = NoOp
  /\ UNCHANGED <<store, session, tracker, round, maxRounds, calls, result, ops>>
  /\ UNCHANGED responseMapping

NextCleanup ==
  \/ Tick
  \/ operationGet
  \/ operationSet
  \/ \E olderThanMs \in MaxAges : cleanupList(olderThanMs)
  \/ cleanupGet
  \/ cleanupDelete
  \/ cleanupReturn
  \/ startPeriodicCleanup

SpecCleanup == InitCleanup /\ [][NextCleanup]_vars

\* every participant call resolves, and the continuation that waits for it
\* runs: the steps inside an operation are taken when they can be
InsideOperation ==
  \/ StartRound
  \/ \E p \in Providers : CallSucceeds(p)
  \/ \E p \in Providers : CallFails(p)
  \/ RoundFailsQuorum
  \/ \E sc \in Scores : RoundCompletes(sc)
  \/ phoneAFriendAfterRound
  \/ phoneAFriendAfterLoop
  \/ continueDebateAfterRound
  \/ continueDebateAfterLoop
  \/ continueRoundAfterRound
  \/ continueRoundAfterLoop

SpecFair == Init /\ [][Next]_vars /\ WF_vars(InsideOperation)

ReviewOrder == <<"openai", "gemini", "claude">>

\* a reviewer whose collectReview threw
NoReview ==
  [content |-> "", confidence |-> 0, model |-> "no_review", tokens_used |-> 0,
   cost_usd |-> 0]

\* the reviewers whose review was pushed to "reviews"
reviews(cs) == {p \in Providers : cs[p] \notin {Pending, NotCalled, NoReview}}

\* the reviewer the for-loop is waiting for
Reviewing(p) ==
  /\ calls[p] = Pending
  /\ \A i \in 1..Len(ReviewOrder) :
       ReviewOrder[i] = p => \A j \in 1..(i - 1) : calls[ReviewOrder[j]] # Pending

\* a slip: one review is taken to be enough
EnoughReviews_One(n) == n >= 1

\* "if (reviews.length < 2) throw"
EnoughReviews(n) == n >= 2

\* PeerReviewResult.total_cost_usd: the sum over the collected reviews
total_cost_usd(cs) ==
  LET cost(p) == IF p \in reviews(cs) THEN cs[p].cost_usd ELSE 0
  IN cost("openai") + cost("gemini") + cost("claude")

\* the PeerReviewSummary pushed to session.peer_reviews
PeerReviewSummary(r, cs) ==
  [round_number |-> r, reviewers |-> Cardinality(reviews(cs)),
   cost_usd |-> total_cost_usd(cs)]

conductPeerReview(r) ==
  /\ pc = "idle"
  /\ store # NoSession
  /\ ops < MaxOps
  /\ r \in 1..Len(store.rounds)
  /\ ops' = ops + 1
  /\ session' = store
  /\ op' = [name |-> "conductPeerReview", mode |-> "peer_review",
            selected_ai |-> "none", conducted |-> 0]
  /\ round' = r
  /\ calls' = [p \in Providers |-> Pending]
  /\ pc' = "review"
  /\ result' = NoResult
  /\ UNCHANGED <<store, tracker, maxRounds>>
  /\ UNCHANGED responseMapping

\* collectReview returns: the review carries the call's cost and tokens
ReviewSucceeds(p) ==
  /\ pc = "review"
  /\ Reviewing(p)
  /\ calls' = [calls EXCEPT ![p] = Reply(p, round)]
  /\ UNCHANGED <<store, session, tracker, pc, op, round, maxRounds, result, ops>>
  /\ UNCHANGED responseMapping

\* collectReview throws: "Fortsätt med övriga reviews"
ReviewFails(p) ==
  /\ pc = "review"
  /\ Reviewing(p)
  /\ calls' = [calls EXCEPT ![p] = NoReview]
  /\ UNCHANGED <<store, session, tracker, pc, op, round, maxRounds, result, ops>>
  /\ UNCHANGED responseMapping

\* fewer than two reviews: the error leaves both conductPeerReview methods
PeerReviewFails ==
  /\ pc = "review"
  /\ \A p \in Providers : calls[p] # Pending
  /\ ~EnoughReviews(Cardinality(reviews(calls)))
  /\ result' = Raised("not_enough_reviews")
  /\ pc' = "done"
  /\ round' = 0
  /\ UNCHANGED <<store, session, tracker, op, maxRounds, calls, ops>>
  /\ UNCHANGED responseMapping

\* the summary is pushed, every review's cost recorded, the session's cost
\* raised by the total and the session persisted
PeerReviewCompletes ==
  /\ pc = "review"
  /\ \A p \in Providers : calls[p] # Pending
  /\ EnoughReviews(Cardinality(reviews(calls)))
  /\ session' =
       [session EXCEPT
          !.peer_reviews = Append(@, PeerReviewSummary(round, calls)),
          !.current_cost_usd = @ + total_cost_usd(calls)]
  /\ store' = session'
  /\ tracker' = addCost(tracker, total_cost_usd(calls))
  /\ result' = Returned("peer_review", NoAnswer)
  /\ pc' = "done"
  /\ round' = 0
  /\ UNCHANGED <<op, maxRounds, calls, ops>>
  /\ UNCHANGED responseMapping

(***************************************************************************)
(* Chairman synthesis: one paid call of the chairman                       *)
(***************************************************************************)
\* the chairman's call succeeds
synthesizeWithChairman(r, chairman) ==
  /\ pc = "idle"
  /\ store # NoSession
  /\ ops < MaxOps
  /\ r \in 1..Len(store.rounds)
  /\ ops' = ops + 1
  /\ op' = [name |-> "synthesizeWithChairman", mode |-> "chairman",
            selected_ai |-> chairman, conducted |-> 0]
  /\ session' =
       [store EXCEPT
          !.chairman_synthesis =
             [chairman |-> chairman, cost_usd |-> Reply(chairman, r).cost_usd],
          !.current_cost_usd = @ + Reply(chairman, r).cost_usd]
  /\ store' = session'
  /\ tracker' = addCost(tracker, Reply(chairman, r).cost_usd)
  /\ result' = Returned("synthesis", Verbatim(Reply(chairman, r).content))
  /\ pc' = "done"
  /\ UNCHANGED <<round, maxRounds, calls>>
  /\ UNCHANGED responseMapping

\* the chairman's call fails: "Chairman synthesis failed"
synthesizeWithChairmanFails(r, chairman) ==
  /\ pc = "idle"
  /\ store # NoSession
  /\ ops < MaxOps
  /\ r \in 1..Len(store.rounds)
  /\ ops' = ops + 1
  /\ op' = [name |-> "synthesizeWithChairman", mode |-> "chairman",
            selected_ai |-> chairman, conducted |-> 0]
  /\ session' = store
  /\ result' = Raised("chairman_failed")
  /\ pc' = "done"
  /\ UNCHANGED <<store, tracker, round, maxRounds, calls>>
  /\ UNCHANGED responseMapping

\* the debate operations together with the two paid enrichments
NextEnriched ==
  \/ Next
  \/ \E r \in 1..RoundCap : conductPeerReview(r)
  \/ \E p \in Providers : ReviewSucceeds(p)
  \/ \E p \in Providers : ReviewFails(p)
  \/ PeerReviewFails
  \/ PeerReviewCompletes
  \/ \E r \in 1..RoundCap, p \in Providers : synthesizeWithChairman(r, p)
  \/ \E r \in 1..RoundCap, p \in Providers : synthesizeWithChairmanFails(r, p)

SpecEnriched == Init /\ [][NextEnriched]_vars

(***************************************************************************)
(* FileSessionStore: a session is written as JSON text and read back       *)
(***************************************************************************)
\* a Date object, and the string JSON.stringify writes for it (toISOString)
Date(ms) == [type |-> "Date", ms |-> ms]
IsoString(ms) == [type |-> "string", iso |-> ms]

\* an optional property that is undefined, and a key missing from the JSON
Undefined == [type |-> "undefined"]
Missing == [type |-> "missing"]

\* an optional list that is defined
Array(items) == [type |-> "array", items |-> items]

\* Date.prototype.toJSON, applied by JSON.stringify to every Date it meets
toJSON(v) == IF v.type = "Date" THEN IsoString(v.ms) ELSE v

\* new Date(v) as FileSessionStore.get applies it
newDate(v) == IF v.type = "string" THEN Date(v.iso) ELSE v

\* JSON.stringify of a list of objects that carry a timestamp
stringifyStamped(list) ==
  [i \in 1..Len(list) |-> [list[i] EXCEPT !.timestamp = toJSON(@)]]

\* JSON.stringify(session, null, 2): Dates become strings, undefined
\* properties are left out
stringify(s) ==
  [id                 |-> s.id,
   status             |-> s.status,
   created_at         |-> toJSON(s.created_at),
   updated_at         |-> toJSON(s.updated_at),
   rounds             |-> stringifyStamped(s.rounds),
   peer_reviews       |-> IF s.peer_reviews = Undefined THEN Missing
                          ELSE Array(stringifyStamped(s.peer_reviews.items)),
   consensus_breakdown |->
     IF s.consensus_breakdown = Undefined THEN Missing
     ELSE [s.consensus_breakdown EXCEPT !.timestamp = toJSON(@)],
   chairman_synthesis |->
     IF s.chairman_synthesis = Undefined THEN Missing
     ELSE [s.chairman_synthesis EXCEPT !.timestamp = toJSON(@)]]

\* JSON.parse(data): strings stay strings, a missing key reads as undefined
parse(f) ==
  [f EXCEPT
     !.peer_reviews = IF @ = Missing THEN Undefined ELSE @,
     !.consensus_breakdown = IF @ = Missing THEN Undefined ELSE @,
     !.chairman_synthesis = IF @ = Missing THEN Undefined ELSE @]

\* FileSessionStore.set: the text written to the session's file
set(s) == stringify(s)

\* FileSessionStore.get: parse, then "Convert date strings back to Date
\* objects" for created_at, updated_at and each round's timestamp
get(f) ==
  LET s == parse(f)
  IN [s EXCEPT
        !.created_at = newDate(@),
        !.updated_at = newDate(@),
        !.rounds = [i \in 1..Len(@) |-> [@[i] EXCEPT !.timestamp = newDate(@)]]]

\* sessions as the engine hands them to the store, timestamps as Dates
Instants == 1..MaxInstant
Stamped(n, ms) == [i \in 1..n |-> [round_number |-> i, timestamp |-> Date(ms)]]
StoredSessions ==
  { [id                 |-> "s1",
     status             |-> "deadlock",
     created_at         |-> Date(c),
     updated_at         |-> Date(u),
     rounds             |-> Stamped(n, u),
     peer_reviews       |-> pr,
     consensus_breakdown |-> cb,
     chairman_synthesis |-> cs] :
      c \in Instants, u \in Instants, n \in 0..MaxAttached,
      pr \in {Undefined}
               \cup {Array(Stamped(k, a)) : k \in 0..MaxAttached, a \in Instants},
      cb \in {Undefined}
               \cup {[round_number |-> 1, timestamp |-> Date(a)] : a \in Instants},
      cs \in {Undefined}
               \cup {[chairman |-> "claude", timestamp |-> Date(a)] : a \in Instants} }

InitStore ==
  /\ session \in StoredSessions
  /\ store = NoSession
  /\ result = NoResult
  /\ pc = "idle"
  /\ tracker = 0
  /\ op = NoOp
  /\ round = 0
  /\ maxRounds = 0
  /\ calls = NoCalls
  /\ ops = 0
  /\ responseMapping = NoMapping

\* store.set(id, s)
storeSet ==
  /\ pc = "idle"
  /\ store' = set(session)
  /\ pc' = "stored"
  /\ UNCHANGED <<session, tracker, op, round, maxRounds, calls, result, ops>>
  /\ UNCHANGED responseMapping

\* store.get(id): "result" is the session that comes back
storeGet ==
  /\ pc = "stored"
  /\ result' = get(store)
  /\ pc' = "loaded"
  /\ UNCHANGED <<store, session, tracker, op, round, maxRounds, calls, ops>>
  /\ UNCHANGED responseMapping

NextStore == storeSet \/ storeGet

SpecStore == InitStore /\ [][NextStore]_vars

(***************************************************************************)
(* PeerReviewSystem.aggregateRankings and the winner (peer-review.ts)      *)
(***************************************************************************)
\* const ids = ['A', 'B', 'C']
Labels == <<"A", "B", "C">>
LabelSet == {"A", "B", "C"}

\* a PeerRanking
Rank(position, response_id) == [position |-> position, response_id |-> response_id]

\* scores.set(id, { total_score: 0, votes_for_first: 0, count: 0 })
NoScores == [l \in LabelSet |-> [total_score |-> 0, votes_for_first |-> 0, count |-> 0]]

\* the inner loop of aggregateRankings over one review's rankings
RECURSIVE addRankings(_, _)
addRankings(scores, rankings) ==
  IF rankings = << >> THEN scores
  ELSE LET ranking == Head(rankings)
           next == IF ranking.response_id \in DOMAIN scores
                   THEN [scores EXCEPT ![ranking.response_id] =
                          [total_score     |-> @.total_score + ranking.position,
                           votes_for_first |-> @.votes_for_first
                                                 + (IF ranking.position = 1 THEN 1 ELSE 0),
                           count           |-> @.count + 1]]
                   ELSE scores
       IN addRankings(next, Tail(rankings))

\* the outer loop over the reviews
RECURSIVE addReviews(_, _)
addReviews(scores, revs) ==
  IF revs = << >> THEN scores
  ELSE addReviews(addRankings(scores, Head(revs)), Tail(revs))

\* a slip: the comparator orders by #1 votes, most votes first
compare_ByVotes(a, b) == b.votes_for_first - a.votes_for_first

\* .sort((a, b) => a.total_score - b.total_score)
compare(a, b) == a.total_score - b.total_score

\* Array.prototype.sort is stable: x goes behind every element that does not
\* compare greater than it
RECURSIVE Insert(_, _)
Insert(x, s) ==
  IF s = << >> THEN <<x>>
  ELSE IF compare(Head(s), x) > 0 THEN <<x>> \o s
  ELSE <<Head(s)>> \o Insert(x, Tail(s))

RECURSIVE sort(_)
sort(s) == IF s = << >> THEN << >> ELSE Insert(s[Len(s)], sort(SubSeq(s, 1, Len(s) - 1)))

\* aggregateRankings(reviews); "mapping" is this.responseMapping as read
aggregateRankings(revs, mapping) ==
  LET scores == addReviews(NoScores, revs)
  IN sort([i \in 1..Len(Labels) |->
             [response_id       |-> Labels[i],
              original_provider |-> mapping[Labels[i]],
              total_score       |-> scores[Labels[i]].total_score,
              votes_for_first   |-> scores[Labels[i]].votes_for_first]])

\* steps 3 and 4 of PeerReviewSystem.conductPeerReview
PeerReviewResult(revs, mapping) ==
  LET aggregatedRankings == aggregateRankings(revs, mapping)
  IN [aggregated_rankings |-> aggregatedRankings,
      winner              |-> aggregatedRankings[1].original_provider,
      consensus_on_winner |-> aggregatedRankings[1].votes_for_first >= 2]

\* rankings a parsed review can carry: the k-th line ranks a label at k, for
\* one to three distinct labels; a tie written by the reviewer; a label
\* ranked twice
RankingOf(ls) == [k \in 1..Len(ls) |-> Rank(k, ls[k])]
Rankings ==
  {RankingOf(ls) :
     ls \in {s \in UNION {[1..n -> LabelSet] : n \in 1..Len(Labels)} :
               \A i, j \in 1..Len(s) : s[i] = s[j] => i = j}}
  \cup {<<Rank(1, "B"), Rank(1, "C"), Rank(2, "A")>>,
        <<Rank(1, "C"), Rank(2, "C"), Rank(3, "A")>>}

\* the reviews of two or three successful reviewers
ReviewLists == [1..2 -> Rankings] \cup [1..3 -> Rankings]

\* the mappings a shuffle can produce
Mappings ==
  {m \in [LabelSet -> Providers] : \A a, b \in LabelSet : m[a] = m[b] => a = b}

InitAggregate ==
  /\ op \in {[name |-> "aggregateRankings", reviews |-> rs,
              responseMapping |-> CHOOSE m \in Mappings : m["A"] = "gemini" /\ m["B"] = "claude"] :
               rs \in ReviewLists}
  /\ pc = "idle"
  /\ result = NoResult
  /\ store = NoSession
  /\ session = NoSession
  /\ tracker = 0
  /\ round = 0
  /\ maxRounds = 0
  /\ calls = NoCalls
  /\ ops = 0
  /\ responseMapping = NoMapping

\* the reviews are aggregated and the winner is named
aggregate ==
  /\ pc = "idle"
  /\ result' = PeerReviewResult(op.reviews, op.responseMapping)
  /\ pc' = "done"
  /\ UNCHANGED <<store, session, tracker, op, round, maxRounds, calls, ops>>
  /\ UNCHANGED responseMapping

NextAggregate == aggregate

SpecAggregate == InitAggregate /\ [][NextAggregate]_vars

(***************************************************************************)
(* PeerReviewSystem.parseReviewResponse on a reviewer text in which the    *)
(* primary template finds no ranking line (the text has no "digit.")       *)
(***************************************************************************)
\* words of a reviewer text, each a list of characters
Vocabulary ==
  {<<"A">>, <<"B">>, <<"C">>, <<"S", "V", "A", "R">>, <<"b", "e", "s", "t">>,
   <<"i", "s">>}

\* the text: its words with one blank between them
RECURSIVE Join(_)
Join(words) ==
  IF words = << >> THEN << >>
  ELSE IF Len(words) = 1 THEN Head(words)
  ELSE Head(words) \o <<" ">> \o Join(Tail(words))

\* the i flag of the regular expressions, and toUpperCase()
toUpperCase(c) ==
  CASE c = "b" -> "B" [] c = "e" -> "E" [] c = "s" -> "S" [] c = "t" -> "T"
    [] c = "i" -> "I" [] OTHER -> c

\* [ABC] under the i flag
InABC(c) == toUpperCase(c) \in {"A", "B", "C"}

\* the position behind "SVAR\s*" when the text has SVAR at position i, else 0
RECURSIVE SkipBlanks(_, _)
SkipBlanks(s, j) == IF j <= Len(s) /\ s[j] = " " THEN SkipBlanks(s, j + 1) ELSE j
AfterSvar(s, i) ==
  IF /\ i + 3 <= Len(s)
     /\ [k \in 1..4 |-> toUpperCase(s[i + k - 1])] = <<"S", "V", "A", "R">>
  THEN SkipBlanks(s, i + 4)
  ELSE 0

\* content.match(/(?:SVAR\s*)?([ABC])/gi), each match without its "SVAR "
\* and in upper case
RECURSIVE mentionedIds(_, _)
mentionedIds(s, i) ==
  IF i > Len(s) THEN << >>
  ELSE LET j == AfterSvar(s, i)
       IN IF j > 0 /\ j <= Len(s) /\ InABC(s[j])
          THEN <<toUpperCase(s[j])>> \o mentionedIds(s, j + 1)
          ELSE IF InABC(s[i])
          THEN <<toUpperCase(s[i])>> \o mentionedIds(s, i + 1)
          ELSE mentionedIds(s, i + 1)

\* [...new Set(ids)]: the first occurrence of each id, in order
RECURSIVE uniqueIds(_, _)
uniqueIds(ids, seen) ==
  IF ids = << >> THEN << >>
  ELSE IF Head(ids) \in seen THEN uniqueIds(Tail(ids), seen)
  ELSE <<Head(ids)>> \o uniqueIds(Tail(ids), seen \cup {Head(ids)})

\* "fallback till A, B, C"
DefaultRanking == [k \in 1..Len(Labels) |-> Rank(k, Labels[k])]

\* lines 289-313: the rankings when the template gave none
fallbackRankings(content) ==
  LET ids == uniqueIds(mentionedIds(content, 1), {})
      n == IF Len(ids) < 3 THEN Len(ids) ELSE 3
  IN IF n = 0 THEN DefaultRanking ELSE [k \in 1..n |-> Rank(k, ids[k])]

\* reviewer texts of up to MaxWords words
ReviewerTexts == UNION {[1..n -> Vocabulary] : n \in 0..MaxWords}

InitParse ==
  /\ op \in {[name |-> "parseReviewResponse", words |-> w] : w \in ReviewerTexts}
  /\ pc = "idle"
  /\ result = NoResult
  /\ store = NoSession
  /\ session = NoSession
  /\ tracker = 0
  /\ round = 0
  /\ maxRounds = 0
  /\ calls = NoCalls
  /\ ops = 0
  /\ responseMapping = NoMapping

parseReviewResponse ==
  /\ pc = "idle"
  /\ result' = [outcome |-> "returned", rankings |-> fallbackRankings(Join(op.words))]
  /\ pc' = "done"
  /\ UNCHANGED <<store, session, tracker, op, round, maxRounds, calls, ops>>
  /\ UNCHANGED responseMapping

NextParse == parseReviewResponse

SpecParse == InitParse /\ [][NextParse]_vars

(***************************************************************************)
(* Anonymisation and the review prompt (peer-review.ts)                    *)
(***************************************************************************)
\* first replace of sanitizeContent: "as an ai", "as claude", "as gpt", ...
\* are removed (a content is a list of lower-case words)
RECURSIVE removeAsSignature(_)
removeAsSignature(ws) ==
  IF ws = << >> THEN << >>
  ELSE IF /\ Len(ws) >= 2
          /\ ws[1] = "as"
          /\ ws[2] \in {"claude", "gpt", "gemini"}
  THEN removeAsSignature(Tail(Tail(ws)))
  ELSE <<Head(ws)>> \o removeAsSignature(Tail(ws))

\* second replace: "i am claude", "i am gpt", "i am gemini" become "jag"
RECURSIVE replaceIAm(_)
replaceIAm(ws) ==
  IF ws = << >> THEN << >>
  ELSE IF /\ Len(ws) >= 3
          /\ ws[1] = "i"
          /\ ws[2] = "am"
          /\ ws[3] \in {"claude", "gpt", "gemini"}
  THEN <<"jag">> \o replaceIAm(Tail(Tail(Tail(ws))))
  ELSE <<Head(ws)>> \o replaceIAm(Tail(ws))

\* third replace: the names become "[AI]"
replaceNames(ws) ==
  [k \in 1..Len(ws) |->
     IF ws[k] \in {"claude", "anthropic", "openai", "google", "gemini"}
     THEN "[AI]" ELSE ws[k]]

sanitizeContent(content) == replaceNames(replaceIAm(removeAsSignature(content)))

\* a slip: the provider's name is used as the id of the response
anonymizeResponses_ProviderAsId(responses, shuffled) ==
  [anonymized |->
     [k \in 1..Len(shuffled) |->
        [id         |-> shuffled[k],
         content    |-> sanitizeContent(responses[shuffled[k]].content),
         confidence |-> responses[shuffled[k]].confidence]],
   responseMapping |-> [l \in LabelSet |->
     shuffled[CHOOSE k \in 1..Len(Labels) : Labels[k] = l]]]

\* anonymizeResponses: "shuffled" is the order the Fisher-Yates loop left;
\* the k-th response gets the k-th id and the mapping is recorded
anonymizeResponses(responses, shuffled) ==
  [anonymized |->
     [k \in 1..Len(shuffled) |->
        [id         |-> Labels[k],
         content    |-> sanitizeContent(responses[shuffled[k]].content),
         confidence |-> responses[shuffled[k]].confidence]],
   responseMapping |-> [l \in LabelSet |->
     shuffled[CHOOSE k \in 1..Len(Labels) : Labels[k] = l]]]

\* buildReviewPrompt: the fixed template around the question and, per
\* response, its id, confidence and content
buildReviewPrompt(question, responses) ==
  [question      |-> question,
   responsesText |-> [k \in 1..Len(responses) |->
                        <<responses[k].id, responses[k].confidence,
                          responses[k].content>>]]

\* the orders a shuffle can leave
Shuffles ==
  {s \in [1..Len(Labels) -> Providers] :
     \A i, j \in 1..Len(Labels) : s[i] = s[j] => i = j}

\* responses of a round as far as the prompt can show them
ReviewedReplies ==
  {[content |-> <<"claude">>, confidence |-> 90],
   [content |-> <<"gemini">>, confidence |-> 90],
   [content |-> <<"as", "gemini", "yes">>, confidence |-> 60],
   [content |-> <<"yes">>, confidence |-> 60]}

\* one peer-review run: the round's responses and the shuffle's outcome
ReviewRuns == [responses : [Providers -> ReviewedReplies], shuffled : Shuffles]

\* what a reviewer could be shown of label k in a run
Shown(run, k) ==
  [content    |-> sanitizeContent(run.responses[run.shuffled[k]].content),
   confidence |-> run.responses[run.shuffled[k]].confidence]

\* two runs over the same question that agree, label by label, on the
\* sanitized content and the confidence
InitPrompt ==
  /\ op \in {[name |-> "buildReviewPrompt", first |-> a, second |-> b] :
               <<a, b>> \in {x \in ReviewRuns \X ReviewRuns :
                               \A k \in 1..Len(Labels) : Shown(x[1], k) = Shown(x[2], k)}}
  /\ pc = "idle"
  /\ result = NoResult
  /\ store = NoSession
  /\ session = NoSession
  /\ tracker = 0
  /\ round = 0
  /\ maxRounds = 0
  /\ calls = NoCalls
  /\ ops = 0
  /\ responseMapping = NoMapping

\* both runs anonymize and build the prompt every reviewer is sent
buildPrompts ==
  /\ pc = "idle"
  /\ result' =
       [first  |-> LET a == anonymizeResponses(op.first.responses, op.first.shuffled)
                   IN [prompt |-> buildReviewPrompt("q", a.anonymized),
                       responseMapping |-> a.responseMapping],
        second |-> LET a == anonymizeResponses(op.second.responses, op.second.shuffled)
                   IN [prompt |-> buildReviewPrompt("q", a.anonymized),
                       responseMapping |-> a.responseMapping]]
  /\ pc' = "done"
  /\ UNCHANGED <<store, session, tracker, op, round, maxRounds, calls, ops>>
  /\ UNCHANGED responseMapping

NextPrompt == buildPrompts

SpecPrompt == InitPrompt /\ [][NextPrompt]_vars

(***************************************************************************)
(* Two PeerReviewSystem.conductPeerReview calls for distinct sessions that *)
(* overlap on the one PeerReviewSystem of the engine                       *)
(***************************************************************************)
ReviewCalls == {1, 2}

\* a call that has not started: "calls" holds, per call, how far it is
NewCall == [stage |-> "new", shuffled |-> << >>, asked |-> 0, reviews |-> << >>]

\* the ranking the k-th reviewer's text is parsed to
ReviewerRanking(k) ==
  CASE k = 1 -> RankingOf(<<"A", "B", "C">>)
    [] k = 2 -> RankingOf(<<"B", "A", "C">>)
    [] k = 3 -> RankingOf(<<"C", "A", "B">>)

\* the round a call reviews
ReviewedRound == [p \in Providers |-> [content |-> <<"yes">>, confidence |-> 90]]

InitOverlap ==
  /\ calls = [c \in ReviewCalls |-> NewCall]
  /\ result = [c \in ReviewCalls |-> NoResult]
  /\ responseMapping = NoMapping
  /\ pc = "idle"
  /\ op = NoOp
  /\ store = NoSession
  /\ session = NoSession
  /\ tracker = 0
  /\ round = 0
  /\ maxRounds = 0
  /\ ops = 0

\* the call runs up to its first await: it anonymizes, which clears and
\* refills this.responseMapping, and asks the first reviewer
startPeerReview(c, shuffled) ==
  /\ calls[c].stage = "new"
  /\ responseMapping' = anonymizeResponses(ReviewedRound, shuffled).responseMapping
  /\ calls' = [calls EXCEPT ![c] =
                 [stage |-> "collecting", shuffled |-> shuffled, asked |-> 1,
                  reviews |-> << >>]]
  /\ UNCHANGED <<store, session, tracker, pc, op, round, maxRounds, result, ops>>

\* the call goes on after a reviewer has answered or failed: it asks the
\* next reviewer, or after the third it aggregates with the
\* this.responseMapping of that moment and returns, or throws
afterReviewer(c, revs) ==
  IF calls[c].asked < Len(ReviewOrder)
  THEN /\ calls' = [calls EXCEPT ![c].asked = @ + 1, ![c].reviews = revs]
       /\ UNCHANGED result
  ELSE /\ calls' = [calls EXCEPT ![c].stage = "done", ![c].reviews = revs]
       /\ result' = [result EXCEPT ![c] =
            IF ~EnoughReviews(Len(revs))
            THEN [outcome |-> "error", value |-> "not_enough_reviews"]
            ELSE [outcome |-> "returned",
                  value   |-> PeerReviewResult(revs, responseMapping)]]

reviewerAnswers(c) ==
  /\ calls[c].stage = "collecting"
  /\ afterReviewer(c, Append(calls[c].reviews, ReviewerRanking(calls[c].asked)))
  /\ UNCHANGED <<store, session, tracker, pc, op, round, maxRounds, ops,
                 responseMapping>>

reviewerThrows(c) ==
  /\ calls[c].stage = "collecting"
  /\ afterReviewer(c, calls[c].reviews)
  /\ UNCHANGED <<store, session, tracker, pc, op, round, maxRounds, ops,
                 responseMapping>>

NextOverlap ==
  \/ \E c \in ReviewCalls, s \in Shuffles : startPeerReview(c, s)
  \/ \E c \in ReviewCalls : reviewerAnswers(c)
  \/ \E c \in ReviewCalls : reviewerThrows(c)

SpecOverlap == InitOverlap /\ [][NextOverlap]_vars

(***************************************************************************)
(* ConsensusEngine.analyzeDisagreement(session.rounds)                     *)
(***************************************************************************)
hasFactualClaims_YearsOnly(ws) ==
  \E i \in 1..Len(ws) : ws[i] \in {"1999", "2024"}

\* /\d{4}|\b(is|are|was|were)\b.*\b(true|false|correct|incorrect)\b/i on a
\* content given as its list of lower-case words
hasFactualClaims(ws) ==
  \/ \E i \in 1..Len(ws) : ws[i] \in {"1999", "2024"}
  \/ \E i \in 1..Len(ws), j \in 1..Len(ws) :
       /\ i < j
       /\ ws[i] \in {"is", "are", "was", "were"}
       /\ ws[j] \in {"true", "false", "correct", "incorrect"}

\* /\b(believe|think|feel|opinion|perspective|philosophical|moral|ethical)\b/i
hasPhilosophicalTerms(ws) ==
  \E i \in 1..Len(ws) :
    ws[i] \in {"believe", "think", "feel", "opinion", "perspective",
               "philosophical", "moral", "ethical"}

\* Math.min(10, Math.max(1, x))
clampResolvability(x) ==
  LET atLeastOne == IF x < ResolvabilityMin THEN ResolvabilityMin ELSE x
  IN IF atLeastOne > ResolvabilityMax THEN ResolvabilityMax ELSE atLeastOne

analyzeDisagreement(rounds) ==
  IF Len(rounds) = 0
  THEN [core_conflict       |-> "No rounds available for analysis",
        disagreement_type   |-> "interpretive",
        resolvability_score |-> 0]
  ELSE LET lastRound == rounds[Len(rounds)]
           some(test(_)) == \E p \in Providers : test(lastRound.responses[p].content)
           disagreementType ==
             IF some(hasFactualClaims) THEN "factual"
             ELSE IF some(hasPhilosophicalTerms) THEN "philosophical"
             ELSE "interpretive"
           \* avgConfidence is the sum divided by 3: the tests are on the sum
           confidenceSum == lastRound.responses["openai"].confidence
                              + lastRound.responses["gemini"].confidence
                              + lastRound.responses["claude"].confidence
           base == IF disagreementType = "factual" THEN 8
                   ELSE IF disagreementType = "interpretive" THEN 6 ELSE 4
           low == IF confidenceSum < 3 * 60 THEN base + 2 ELSE base
           resolvabilityScore == IF confidenceSum > 3 * 85 THEN low - 1 ELSE low
       IN [core_conflict       |-> "conflict",
           disagreement_type   |-> disagreementType,
           resolvability_score |-> clampResolvability(resolvabilityScore)]

\* the rounds of a stored session as far as the analysis reads them: none
\* (the first round failed quorum), or a last round of three responses
AnalyzedContents ==
  {<<"in", "1999">>, <<"it", "is", "true">>, <<"i", "think", "so">>, <<"plain">>}
AnalyzedConfidences == {0, 55, 90}
AnalyzedRounds ==
  {<< >>}
  \cup {<<[round_number |-> 1,
           responses |-> [p \in Providers |->
                            [content |-> c[p], confidence |-> k[p]]]]>> :
          c \in [Providers -> AnalyzedContents],
          k \in [Providers -> AnalyzedConfidences]}

InitDisagreement ==
  /\ op \in {[name |-> "analyzeDisagreementForSession", rounds |-> rs] :
               rs \in AnalyzedRounds}
  /\ pc = "idle"
  /\ result = NoResult
  /\ store = NoSession
  /\ session = NoSession
  /\ tracker = 0
  /\ round = 0
  /\ maxRounds = 0
  /\ calls = NoCalls
  /\ ops = 0
  /\ responseMapping = NoMapping

analyzeDisagreementForSession ==
  /\ pc = "idle"
  /\ result' = [outcome |-> "returned", report |-> analyzeDisagreement(op.rounds)]
  /\ pc' = "done"
  /\ UNCHANGED <<store, session, tracker, op, round, maxRounds, calls, ops,
                 responseMapping>>

NextDisagreement == analyzeDisagreementForSession

SpecDisagreement == InitDisagreement /\ [][NextDisagreement]_vars

(***************************************************************************)
(* ConsensusAnalyzer.analyzeConsensus (consensus-breakdown.ts)             *)
(*                                                                         *)
(* A content is its list of whitespace-separated tokens, joined by single  *)
(* blanks.  The scores, numbers from 0 to 1 in the code, are counted in    *)
(* thousandths (rounded down); the overall score, a sum of products with   *)
(* weights in hundredths, is counted in hundred-thousandths.               *)
(***************************************************************************)
One == 1000

\* a positive word, a negative word, a year, and a paragraph break followed
\* by a list dash
AnalyzerVocabulary == {"good", "risk", "2024", "\n\n-"}
POSITIVE_WORDS == {"good"}
NEGATIVE_WORDS == {"risk"}
ParagraphBullet == "\n\n-"

\* text.length of a token
tokenLength(w) == IF w = ParagraphBullet THEN 3 ELSE 4

RECURSIVE textLength(_)
textLength(ws) ==
  IF Len(ws) = 0 THEN 0
  ELSE IF Len(ws) = 1 THEN tokenLength(ws[1])
  ELSE tokenLength(ws[1]) + 1 + textLength(Tail(ws))

\* words longer than 3 characters after everything but letters, digits and
\* blanks was replaced by a blank (none of them is a stop word; at most 20)
extractKeywords(ws) ==
  {ws[i] : i \in {j \in 1..Len(ws) : ws[j] # ParagraphBullet /\ tokenLength(ws[j]) > 3}}

\* /\b(19|20)\d{2}\b/g; the other three patterns match none of the tokens
extractFacts(ws) == {ws[i] : i \in {j \in 1..Len(ws) : ws[j] \in {"1999", "2024"}}}

\* (positiveCount - negativeCount) / total, 0 without sentiment words
analyzeSentiment(ws) ==
  LET positiveCount == Cardinality({i \in 1..Len(ws) : ws[i] \in POSITIVE_WORDS})
      negativeCount == Cardinality({i \in 1..Len(ws) : ws[i] \in NEGATIVE_WORDS})
      total == positiveCount + negativeCount
  IN IF total = 0 THEN 0
     ELSE IF positiveCount >= negativeCount
          THEN ((positiveCount - negativeCount) * One) \div total
          ELSE 0 - (((negativeCount - positiveCount) * One) \div total)

\* length, '\n\n' count + 1, and lines that start with a dash and a blank:
\* a dash at the very end of the text has no blank after it
analyzeStructure(ws) ==
  [length       |-> textLength(ws),
   paragraphs   |-> Cardinality({i \in 1..Len(ws) : ws[i] = ParagraphBullet}) + 1,
   bulletPoints |-> Cardinality({i \in 1..Len(ws) : ws[i] = ParagraphBullet /\ i < Len(ws)})]

jaccardSimilarity_OverFirst(set1, set2) ==
  IF Cardinality(set1) > 0
  THEN (Cardinality(set1 \cap set2) * One) \div Cardinality(set1)
  ELSE 0

jaccardSimilarity(set1, set2) ==
  IF Cardinality(set1 \cup set2) > 0
  THEN (Cardinality(set1 \cap set2) * One) \div Cardinality(set1 \cup set2)
  ELSE 0

compareLengths(a, b, c) ==
  LET max == CHOOSE m \in {a, b, c} : \A x \in {a, b, c} : x <= m
      min == CHOOSE m \in {a, b, c} : \A x \in {a, b, c} : m <= x
  IN IF max = 0 THEN One ELSE (min * One) \div max

\* Math.sqrt, rounded down: the largest r in lo..hi with r * r <= x
RECURSIVE sqrt(_, _, _)
sqrt(x, lo, hi) ==
  IF lo = hi THEN lo
  ELSE LET mid == (lo + hi + 1) \div 2
       IN IF mid * mid <= x THEN sqrt(x, mid, hi)
          ELSE sqrt(x, lo, mid - 1)

analyzeSemanticSimilarity(contents) ==
  LET keywords == [who \in DOMAIN contents |-> extractKeywords(contents[who])]
  IN (jaccardSimilarity(keywords.gpt, keywords.claude)
        + jaccardSimilarity(keywords.gpt, keywords.gemini)
        + jaccardSimilarity(keywords.claude, keywords.gemini)) \div 3

analyzeFactualAgreement_AnyMention(contents) ==
  LET facts == [who \in DOMAIN contents |-> extractFacts(contents[who])]
      totalFacts == Cardinality(facts.gpt) + Cardinality(facts.claude)
                      + Cardinality(facts.gemini)
      allFacts == facts.gpt \cup facts.claude \cup facts.gemini
      mentionedBy(fact) == Cardinality({who \in DOMAIN contents : fact \in facts[who]})
      sharedCount == Cardinality({fact \in allFacts : mentionedBy(fact) >= 1})
  IN IF totalFacts = 0 THEN (7 * One) \div 10
     ELSE IF Cardinality(allFacts) > 0
          THEN (sharedCount * One) \div Cardinality(allFacts)
          ELSE (7 * One) \div 10

analyzeFactualAgreement(contents) ==
  LET facts == [who \in DOMAIN contents |-> extractFacts(contents[who])]
      totalFacts == Cardinality(facts.gpt) + Cardinality(facts.claude)
                      + Cardinality(facts.gemini)
      allFacts == facts.gpt \cup facts.claude \cup facts.gemini
      mentionedBy(fact) == Cardinality({who \in DOMAIN contents : fact \in facts[who]})
      sharedCount == Cardinality({fact \in allFacts : mentionedBy(fact) >= 2})
  IN IF totalFacts = 0 THEN (7 * One) \div 10
     ELSE IF Cardinality(allFacts) > 0
          THEN (sharedCount * One) \div Cardinality(allFacts)
          ELSE (7 * One) \div 10

analyzeTonalAlignment(contents) ==
  LET sentiments == [who \in DOMAIN contents |-> analyzeSentiment(contents[who])]
      abs(x) == IF x < 0 THEN 0 - x ELSE x
      avgDiff == (abs(sentiments.gpt - sentiments.claude)
                    + abs(sentiments.gpt - sentiments.gemini)
                    + abs(sentiments.claude - sentiments.gemini)) \div 3
  IN One - (avgDiff \div 2)

analyzeStructuralSimilarity(contents) ==
  LET structures == [who \in DOMAIN contents |-> analyzeStructure(contents[who])]
      lengthSimilarity == compareLengths(structures.gpt.length,
                                         structures.claude.length,
                                         structures.gemini.length)
      paragraphSimilarity == compareLengths(structures.gpt.paragraphs,
                                            structures.claude.paragraphs,
                                            structures.gemini.paragraphs)
      listSimilarity == compareLengths(structures.gpt.bulletPoints,
                                       structures.claude.bulletPoints,
                                       structures.gemini.bulletPoints)
  IN (lengthSimilarity + paragraphSimilarity + listSimilarity) \div 3

analyzeConfidenceAlignment_FromFirst(confidences) ==
  LET squares == (3 * confidences.claude - 3 * confidences.gpt)
                     * (3 * confidences.claude - 3 * confidences.gpt)
                   + (3 * confidences.gemini - 3 * confidences.gpt)
                     * (3 * confidences.gemini - 3 * confidences.gpt)
      stdDevBy50 == sqrt((squares * (One \div 50) * (One \div 50)) \div 27, 0, One)
      alignment == One - stdDevBy50
  IN IF alignment < 0 THEN 0 ELSE alignment

\* Math.max(0, 1 - stdDev / 50); with sum = 3 * avg the variance is
\* (sum over val of (3 * val - sum)^2) / 27
analyzeConfidenceAlignment(confidences) ==
  LET sum == confidences.gpt + confidences.claude + confidences.gemini
      squares == (3 * confidences.gpt - sum) * (3 * confidences.gpt - sum)
                   + (3 * confidences.claude - sum) * (3 * confidences.claude - sum)
                   + (3 * confidences.gemini - sum) * (3 * confidences.gemini - sum)
      \* stdDev / 50, the division taken under the root
      stdDevBy50 == sqrt((squares * (One \div 50) * (One \div 50)) \div 27, 0, One)
      alignment == One - stdDevBy50
  IN IF alignment < 0 THEN 0 ELSE alignment

\* the weights in hundredths
calculateOverallScore_SemanticHalf(components) ==
  components.semantic_similarity * 50
    + components.factual_agreement * 25
    + components.tonal_alignment * 15
    + components.structural_similarity * 10
    + components.confidence_alignment * 15

calculateOverallScore(components) ==
  components.semantic_similarity * 35
    + components.factual_agreement * 25
    + components.tonal_alignment * 15
    + components.structural_similarity * 10
    + components.confidence_alignment * 15

analyzeConsensus(responses) ==
  LET contents == [gpt    |-> responses["openai"].content,
                   claude |-> responses["claude"].content,
                   gemini |-> responses["gemini"].content]
      confidences == [gpt    |-> responses["openai"].confidence,
                      claude |-> responses["claude"].confidence,
                      gemini |-> responses["gemini"].confidence]
      components ==
        [semantic_similarity   |-> analyzeSemanticSimilarity(contents),
         factual_agreement     |-> analyzeFactualAgreement(contents),
         tonal_alignment       |-> analyzeTonalAlignment(contents),
         structural_similarity |-> analyzeStructuralSimilarity(contents),
         confidence_alignment  |-> analyzeConfidenceAlignment(confidences)]
  IN [overall_score |-> calculateOverallScore(components),
      components    |-> components]

\* three contents of MaxTokens tokens together; extractConfidence gives 0..100
AnalyzedConfidenceLevels == {0, 100}
ScoredResponses(x, y, z, k) ==
  [p \in Providers |->
     [content    |-> IF p = "openai" THEN x ELSE IF p = "gemini" THEN y ELSE z,
      confidence |-> k[p],
      model      |-> p]]

InitBreakdown ==
  /\ \E a \in 0..MaxTokens : \E b \in 0..(MaxTokens - a) :
       \E c \in 0..(MaxTokens - a - b) :
         \E x \in [1..a -> AnalyzerVocabulary], y \in [1..b -> AnalyzerVocabulary],
            z \in [1..c -> AnalyzerVocabulary],
            k \in [Providers -> AnalyzedConfidenceLevels] :
           op = [name |-> "analyzeConsensusBreakdown",
                 responses |-> ScoredResponses(x, y, z, k)]
  /\ pc = "idle"
  /\ result = NoResult
  /\ store = NoSession
  /\ session = NoSession
  /\ tracker = 0
  /\ round = 0
  /\ maxRounds = 0
  /\ calls = NoCalls
  /\ ops = 0
  /\ responseMapping = NoMapping

analyzeConsensusBreakdown ==
  /\ pc = "idle"
  /\ result' = [outcome |-> "returned", breakdown |-> analyzeConsensus(op.responses)]
  /\ pc' = "done"
  /\ UNCHANGED <<store, session, tracker, op, round, maxRounds, calls, ops,
                 responseMapping>>

NextBreakdown == analyzeConsensusBreakdown

SpecBreakdown == InitBreakdown /\ [][NextBreakdown]_vars

(***************************************************************************)
(* ConsensusEngine.calculateConsensusScore: the score conductRound stores  *)
(* in the round, in thousandths                                            *)
(***************************************************************************)
\* what the spawned scorer process does: it fails (exit code not 0, output
\* that is no JSON, spawn error), or prints a consensus_score
ScorerScores == {0, One \div 2, One}
PythonOutcomes ==
  {[kind |-> "failed", consensus_score |-> 0]}
  \cup {[kind |-> "parsed", consensus_score |-> s] : s \in ScorerScores}

\* response.confidence > 0 && response.model !== 'error'
validResponses(responses) ==
  {p \in Providers : responses[p].confidence > 0 /\ responses[p].model # "error"}

\* the words longer than 3 characters of a lower-cased text split at blanks
textWords(ws) == {ws[i] : i \in {j \in 1..Len(ws) : ws[j] # ParagraphBullet /\ tokenLength(ws[j]) > 3}}

calculateTextSimilarity(text1, text2) ==
  LET words1 == textWords(text1)
      words2 == textWords(text2)
  IN IF Cardinality(words1 \cup words2) > 0
     THEN (Cardinality(words1 \cap words2) * One) \div Cardinality(words1 \cup words2)
     ELSE 0

\* the pairs i < j of the valid responses
validPairs(responses) ==
  {pair \in SUBSET validResponses(responses) : Cardinality(pair) = 2}

RECURSIVE totalSimilarity(_, _)
totalSimilarity(responses, pairs) ==
  IF pairs = {} THEN 0
  ELSE LET pair == CHOOSE x \in pairs : TRUE
           i == CHOOSE p \in pair : TRUE
           j == CHOOSE p \in pair : p # i
       IN calculateTextSimilarity(responses[i].content, responses[j].content)
            + totalSimilarity(responses, pairs \ {pair})

calculateJaccardFallback_NoAverage(responses) ==
  IF Cardinality(validResponses(responses)) < 2 THEN 0
  ELSE totalSimilarity(responses, validPairs(responses))

calculateJaccardFallback(responses) ==
  IF Cardinality(validResponses(responses)) < 2 THEN 0
  ELSE LET comparisons == Cardinality(validPairs(responses))
       IN IF comparisons > 0
          THEN totalSimilarity(responses, validPairs(responses)) \div comparisons
          ELSE 0

\* 'parsed.consensus_score || 0' when the scorer answered
calculateSemanticConsensus(responses, python) ==
  IF Cardinality(validResponses(responses)) < 2 THEN 0
  ELSE IF python.kind = "failed" THEN calculateJaccardFallback(responses)
  ELSE python.consensus_score

calculateConsensusScore(responses, python) ==
  calculateSemanticConsensus(responses, python)

\* the analyzer on contents with two different years and a word that is no fact
FactVocabulary == {"1999", "2024", "good"}

InitFacts ==
  /\ \E a \in 0..MaxTokens : \E b \in 0..(MaxTokens - a) :
       \E c \in 0..(MaxTokens - a - b) :
         \E x \in [1..a -> FactVocabulary], y \in [1..b -> FactVocabulary],
            z \in [1..c -> FactVocabulary] :
           op = [name |-> "analyzeConsensusBreakdown",
                 responses |-> ScoredResponses(x, y, z, [p \in Providers |-> 100])]
  /\ pc = "idle"
  /\ result = NoResult
  /\ store = NoSession
  /\ session = NoSession
  /\ tracker = 0
  /\ round = 0
  /\ maxRounds = 0
  /\ calls = NoCalls
  /\ ops = 0
  /\ responseMapping = NoMapping

SpecFacts == InitFacts /\ [][NextBreakdown]_vars

\* analyzeConfidenceAlignment on two triples of confidences, side by side
InitAlignment ==
  /\ \E first, second \in [{"gpt", "claude", "gemini"} -> {0, 40, 50, 100}] :
       op = [name |-> "analyzeConfidenceAlignment", first |-> first, second |-> second]
  /\ pc = "idle"
  /\ result = NoResult
  /\ store = NoSession
  /\ session = NoSession
  /\ tracker = 0
  /\ round = 0
  /\ maxRounds = 0
  /\ calls = NoCalls
  /\ ops = 0
  /\ responseMapping = NoMapping

analyzeConfidenceAlignments ==
  /\ pc = "idle"
  /\ result' = [outcome |-> "returned",
                first   |-> analyzeConfidenceAlignment(op.first),
                second  |-> analyzeConfidenceAlignment(op.second)]
  /\ pc' = "done"
  /\ UNCHANGED <<store, session, tracker, op, round, maxRounds, calls, ops,
                 responseMapping>>

NextAlignment == analyzeConfidenceAlignments

SpecAlignment == InitAlignment /\ [][NextAlignment]_vars

(***************************************************************************)
(* extractConfidence (ai-clients.ts) on a text given as its list of        *)
(* lower-case words                                                        *)
(***************************************************************************)
\* /(?:confident|confidence|certain|sure).*?(\d{1,3})%/i, then
\* /(\d{1,3})%.*?(?:confident|confidence|certain|sure)/i, then the words of
\* the two lists that the text includes; 'certainly' includes 'certain'
extractConfidence(ws) ==
  LET \* the one to three digits before the '%'
      percent(w) == CASE w = "70%" -> 70 [] w = "250%" -> 250 [] w = "1000%" -> 0
                      [] OTHER -> -1
      named(w) == w \in {"sure", "certainly"}
      \* the leftmost confidence word
      first == {i \in 1..Len(ws) : named(ws[i]) /\ \A h \in 1..(i - 1) : ~named(ws[h])}
      \* the nearest percentage after it
      after == {j \in 1..Len(ws) : /\ percent(ws[j]) >= 0
                                   /\ \E i \in first : i < j
                                   /\ \A h \in 1..(j - 1) :
                                        percent(ws[h]) >= 0 => \E i \in first : h < i}
      \* the leftmost percentage, when a confidence word follows it
      before == {j \in 1..Len(ws) : /\ percent(ws[j]) >= 0
                                    /\ \A h \in 1..(j - 1) : percent(ws[h]) < 0
                                    /\ \E i \in (j + 1)..Len(ws) : named(ws[i])}
      clamp(n) == IF n > 100 THEN 100 ELSE IF n < 0 THEN 0 ELSE n
      certainCount == Cardinality({w \in {"definitely", "certainly"} :
                                     \E i \in 1..Len(ws) : ws[i] = w})
      uncertainCount == Cardinality({w \in {"maybe", "perhaps"} :
                                       \E i \in 1..Len(ws) : ws[i] = w})
  IN IF after # {} THEN clamp(percent(ws[CHOOSE j \in after : TRUE]))
     ELSE IF before # {} THEN clamp(percent(ws[CHOOSE j \in before : TRUE]))
     ELSE IF certainCount > uncertainCount THEN 85
     ELSE IF uncertainCount > certainCount THEN 60
     ELSE 75

InitConfidence ==
  /\ \E n \in 0..MaxWords :
       \E ws \in [1..n -> {"sure", "definitely", "certainly", "maybe", "perhaps",
                           "70%", "250%", "1000%"}] :
         op = [name |-> "extractConfidence", content |-> ws]
  /\ pc = "idle"
  /\ result = NoResult
  /\ store = NoSession
  /\ session = NoSession
  /\ tracker = 0
  /\ round = 0
  /\ maxRounds = 0
  /\ calls = NoCalls
  /\ ops = 0
  /\ responseMapping = NoMapping

\* a client's generateResponse: the confidence of the response it returns
generateResponse ==
  /\ pc = "idle"
  /\ result' = [outcome |-> "returned", confidence |-> extractConfidence(op.content)]
  /\ pc' = "done"
  /\ UNCHANGED <<store, session, tracker, op, round, maxRounds, calls, ops,
                 responseMapping>>

NextConfidence == generateResponse

SpecConfidence == InitConfidence /\ [][NextConfidence]_vars

InitScore ==
  /\ \E a \in 0..MaxTokens : \E b \in 0..(MaxTokens - a) :
       \E c \in 0..(MaxTokens - a - b) :
         \E x \in [1..a -> AnalyzerVocabulary], y \in [1..b -> AnalyzerVocabulary],
            z \in [1..c -> AnalyzerVocabulary],
            k \in [Providers -> AnalyzedConfidenceLevels],
            python \in PythonOutcomes :
           op = [name |-> "conductRound",
                 responses |-> ScoredResponses(x, y, z, k),
                 python |-> python]
  /\ pc = "idle"
  /\ result = NoResult
  /\ store = NoSession
  /\ session = NoSession
  /\ tracker = 0
  /\ round = 0
  /\ maxRounds = 0
  /\ calls = NoCalls
  /\ ops = 0
  /\ responseMapping = NoMapping

\* the end of conductRound: the score of the round it returns
conductRoundScore ==
  /\ pc = "idle"
  /\ result' = [outcome |-> "returned",
                consensus_score |-> calculateConsensusScore(op.responses, op.python)]
  /\ pc' = "done"
  /\ UNCHANGED <<store, session, tracker, op, round, maxRounds, calls, ops,
                 responseMapping>>

NextScore == conductRoundScore

SpecScore == InitScore /\ [][NextScore]_vars

(***************************************************************************)
(* Properties                                                              *)
(***************************************************************************)
TerminalStatuses == {"consensus", "user_accepted", "manually_resolved", "failed"}
Continuations == {"continueDebate", "continueRound"}

\* the rounds the finished (or running) operation conducted itself
ConductedRounds ==
  {i \in 1..Len(session.rounds) : i > Len(session.rounds) - op.conducted}

\* C1: an operation that returns after conducting a round whose score is at
\* least 0.85, with the cost below the hard ceiling, leaves the persisted
\* status 'consensus'.
C1_ConsensusPersisted ==
  (/\ pc = "done"
   /\ result.outcome = "returned"
   /\ \E i \in ConductedRounds :
        session.rounds[i].consensus_score >= ConsensusThreshold
   /\ tracker < HardCeiling
   /\ session.current_cost_usd < HardCeiling)
  => store.status = "consensus"

\* C2: an operation that conducted a round and leaves the session's
\* cumulative cost at or above the hard ceiling has set and persisted the
\* status 'failed' and ended with an error.
C2_HardCeilingFails ==
  (/\ pc = "done"
   /\ op.conducted > 0
   /\ session.current_cost_usd >= HardCeiling)
  => (store.status = "failed" /\ result.outcome = "error")

\* C3: once the stored status is consensus, user_accepted, manually_resolved
\* or failed, no step issues participant calls, appends a round or changes
\* the status.
C3_TerminalIsFinal ==
  [][(store # NoSession /\ store.status \in TerminalStatuses)
       => /\ store'.status = store.status
          /\ store'.rounds = store.rounds
          /\ pc' # "calls"]_vars

\* C4: while a round is in flight nothing of the session changes, and when
\* at least two of its three calls have failed the operation ends with an
\* error, the rounds and the cost of the session left as they were, in
\* memory and in the store.
C4_NoPartialRound ==
  [][(pc = "calls" /\ (pc' = "calls" \/ (AllResolved /\ failedProviders(calls) >= 2)))
       => /\ session'.rounds = session.rounds
          /\ session'.current_cost_usd = session.current_cost_usd
          /\ store'.rounds = store.rounds
          /\ store'.current_cost_usd = store.current_cost_usd
          /\ store.rounds = session.rounds
          /\ store.current_cost_usd = session.current_cost_usd
          /\ (pc' # "calls" => pc' = "done" /\ result'.outcome = "error")]_vars

\* an operation has ended with the quorum error
C4_Witness ==
  /\ pc = "done"
  /\ result = Raised("quorum")
  /\ Len(session.rounds) > 0

\* C5: an operation that ended because a round failed quorum leaves the
\* persisted status 'failed'.
C5_QuorumFailureMarksFailed ==
  (pc = "done" /\ result = Raised("quorum")) => store.status = "failed"

\* C6: when exactly one of the three calls of a round has failed, the round
\* is appended and persisted with the two replies and the sentinel of the
\* failed participant, and the operation goes on to its checks without an
\* error.
C6_OneFailureTolerated ==
  [][(pc = "calls" /\ pc' # "calls" /\ failedProviders(calls) = 1)
       => /\ pc' = "check"
          /\ result'.outcome # "error"
          /\ Len(session'.rounds) = Len(session.rounds) + 1
          /\ store' = session'
          /\ Last(session'.rounds).round_number = round
          /\ \A p \in Providers :
               LET r == Last(session'.rounds).responses[p] IN
                 \/ r = Reply(p, round)
                 \/ /\ calls[p].model = "error"
                    /\ r.confidence = 0 /\ r.model = "error"
                    /\ r.tokens_used = 0 /\ r.cost_usd = 0
          /\ Cardinality({p \in Providers :
               Last(session'.rounds).responses[p] = Reply(p, round)}) = 2]_vars

\* a round with exactly one sentinel has been persisted
C6_Witness ==
  /\ pc = "check"
  /\ failedProviders(Last(store.rounds).responses) = 1

\* C7: the stored status becomes 'deadlock' only when the session holds
\* max_rounds rounds and the last round's score is below 0.85.
C7_DeadlockOnlyAtMaxRounds ==
  [][(/\ store' # NoSession
      /\ store'.status = "deadlock"
      /\ (store = NoSession \/ store.status # "deadlock"))
       => /\ Len(store'.rounds) > 0
          /\ Len(store'.rounds) >= store'.max_rounds
          /\ Last(store'.rounds).consensus_score < ConsensusThreshold]_vars

\* C8: a stored session in status 'consensus' has a round, and its last
\* round's score is at least 0.85.
C8_ConsensusMeansThreshold ==
  (store # NoSession /\ store.status = "consensus")
  => /\ Len(store.rounds) > 0
     /\ Last(store.rounds).consensus_score >= ConsensusThreshold

\* C9: while a continuation conducts a round, the session it works on is
\* not in status paused or deadlock (it was made active first).
C9_ActiveWhileContinuing ==
  (pc = "calls" /\ op.name \in Continuations)
  => session.status \notin {"paused", "deadlock"}

\* C10: accept_answer with participant p on a session that has a round
\* returns p's content of the last round, persists user_accepted, issues no
\* call and leaves rounds, max_rounds and current_cost_usd as they were.
C10_AcceptAnswer ==
  [][(/\ pc = "idle"
      /\ op'.mode = "accept_answer"
      /\ Len(store.rounds) > 0)
       => /\ pc' = "done"
          /\ calls' = NoCalls
          /\ tracker' = tracker
          /\ result' = Returned("user_accepted",
               Verbatim(Last(store.rounds).responses[op'.selected_ai].content))
          /\ store' = [store EXCEPT !.status = "user_accepted"]
          /\ session' = store']_vars

\* an answer of a session with two rounds has been accepted
C10_Witness ==
  /\ pc = "done"
  /\ op.mode = "accept_answer"
  /\ result.status = "user_accepted"
  /\ Len(store.rounds) >= 2

\* C11: user_accepted and manually_resolved are entered only from deadlock:
\* whenever the persisted status becomes one of the two, it was deadlock
\* before.
C11_ResolvedOnlyFromDeadlock ==
  [][(/\ store # NoSession
      /\ store'.status \in {"user_accepted", "manually_resolved"}
      /\ store'.status # store.status)
       => store.status = "deadlock"]_vars

\* C12: synthesize_and_stop on a session that has a round returns, in the
\* fixed preamble, one of the last round's three contents that is at least
\* as long as each of the other two, persists manually_resolved, issues no
\* call and leaves the cost as it was.
C12_SynthesizeAndStop ==
  [][(/\ pc = "idle"
      /\ op'.mode = "synthesize_and_stop"
      /\ Len(store.rounds) > 0)
       => LET texts == {Last(store.rounds).responses[p].content : p \in Providers}
          IN /\ pc' = "done"
             /\ calls' = NoCalls
             /\ tracker' = tracker
             /\ result'.outcome = "returned"
             /\ result'.status = "manually_resolved"
             /\ result'.final_answer.preamble
             /\ result'.final_answer.text \in texts
             /\ \A t \in texts : Len(result'.final_answer.text) >= Len(t)
             /\ store' = [store EXCEPT !.status = "manually_resolved"]
             /\ session' = store']_vars

\* a session of two rounds, the last one with two longest contents of equal
\* length, has been synthesized locally
C12_Witness ==
  /\ pc = "done"
  /\ op.mode = "synthesize_and_stop"
  /\ result.status = "manually_resolved"
  /\ Len(store.rounds) = 2
  /\ ~IsErrorResponse(Last(store.rounds).responses["gemini"])
  /\ ~IsErrorResponse(Last(store.rounds).responses["claude"])

\* C13: an interactive start that returns has conducted exactly one round
\* and left the session persisted as paused; a next_round that returns has
\* conducted exactly one round; neither ever conducts a second one.
C13_InteractiveOneRound ==
  /\ op.mode \in {"interactive", "next_round"} => op.conducted <= 1
  /\ (pc = "done" /\ result.outcome = "returned" /\ op.mode = "interactive")
       => /\ op.conducted = 1
          /\ Len(store.rounds) = 1
          /\ store.status = "paused"
          /\ store = session
  /\ (pc = "done" /\ result.outcome = "returned" /\ op.mode = "next_round")
       => /\ op.conducted = 1
          /\ store.rounds = session.rounds

\* a next_round on a paused session has returned after its one round
C13_Witness ==
  /\ pc = "done"
  /\ op.mode = "next_round"
  /\ result.outcome = "returned"
  /\ op.conducted = 1
  /\ Len(store.rounds) = 2
  /\ store.rounds[1].consensus_score < ConsensusThreshold

\* C14: when after a round the soft cap is reached and the cost is below the
\* hard ceiling, the operation's next step is a normal return: no further
\* call, no further round, no error, and the session is not made failed.
C14_SoftCapIsNoError ==
  [][(/\ pc = "check"
      /\ ~checkBudgetLimit(tracker, session.max_cost_usd).withinBudget
      /\ checkBudgetLimit(tracker, session.max_cost_usd).currentCost < HardCeiling)
       => /\ pc' = "done"
          /\ result'.outcome = "returned"
          /\ calls' = NoCalls
          /\ tracker' = tracker
          /\ session'.rounds = session.rounds
          /\ store'.rounds = session.rounds
          /\ store'.status = "failed" => store.status = "failed"]_vars

\* a batch operation has stopped at the soft cap after a round
C14_Witness ==
  /\ pc = "done"
  /\ op.mode \in {"batch", "continue_2_rounds", "auto_complete"}
  /\ op.conducted >= 1
  /\ result = Returned("intervention_needed", NoAnswer)
  /\ tracker >= store.max_cost_usd
  /\ tracker < HardCeiling
  /\ store.status # "failed"

\* C15: the session's total cost never exceeds the max_cost_usd the debate
\* was started with.
C15_CostWithinBudget ==
  store # NoSession => store.current_cost_usd <= store.max_cost_usd

\* C17: between operations the cost tracker's total equals the session's
\* current_cost_usd.
C17_TrackerAgreesWithSession ==
  (pc \in {"idle", "done"} /\ store # NoSession)
    => tracker = store.current_cost_usd

\* C18: whenever an operation is about to issue a call, to go on with its
\* loop, to return or to raise, the stored session has the rounds and the
\* status of the operation's session object.
C18_WriteThrough ==
  session # NoSession
    => /\ store # NoSession
       /\ store.rounds = session.rounds
       /\ store.status = session.status

\* a batch continuation has appended two rounds and ended in consensus
C18_Witness ==
  /\ pc = "done"
  /\ op.name \in Continuations
  /\ op.conducted = 2
  /\ session.status = "consensus"
  /\ Len(session.rounds) = 3

\* the sum of cost_usd over a list of rounds or of summaries
RECURSIVE SumCost(_)
SumCost(s) == IF s = << >> THEN 0 ELSE s[1].cost_usd + SumCost(Tail(s))

\* C16, as the claim has it: the stored current_cost_usd never decreases and
\* equals the sum of cost_usd over the session's rounds.
C16_CostIsSumOfRounds ==
  [][store' # NoSession
       => /\ store'.current_cost_usd = SumCost(store'.rounds)
          /\ store # NoSession
               => store'.current_cost_usd >= store.current_cost_usd]_vars

\* C16, amended: the stored current_cost_usd never decreases and is at least
\* the sum of cost_usd over the rounds, the peer review summaries and the
\* chairman synthesis; it equals the sum over rounds and peer review
\* summaries while the session has no chairman synthesis, hence the sum over
\* rounds while it has neither.
C16_CostMonotoneAndCoversRounds ==
  [][store' # NoSession
       => /\ store # NoSession
               => store'.current_cost_usd >= store.current_cost_usd
          /\ store'.current_cost_usd >=
               SumCost(store'.rounds) + SumCost(store'.peer_reviews)
                 + store'.chairman_synthesis.cost_usd
          /\ store'.chairman_synthesis = NoSynthesis
               => store'.current_cost_usd =
                    SumCost(store'.rounds) + SumCost(store'.peer_reviews)]_vars

\* a session of two rounds carries a peer review whose cost is in
\* current_cost_usd
C16_Witness ==
  /\ store # NoSession
  /\ Len(store.rounds) = 2
  /\ Len(store.peer_reviews) = 1
  /\ store.current_cost_usd > SumCost(store.rounds)

\* C20: when the three reviewer calls are over and fewer than two succeeded,
\* conductPeerReview raises and the session object, its peer_reviews and
\* current_cost_usd, the stored session and the tracker stay as they were.
C20_TooFewReviews ==
  [][(/\ pc = "review"
      /\ \A p \in Providers : calls[p] # Pending
      /\ Cardinality(reviews(calls)) < 2)
       => /\ pc' = "done"
          /\ result'.outcome = "error"
          /\ session' = session
          /\ store' = store
          /\ tracker' = tracker]_vars

\* a peer review with one successful reviewer has raised
C20_Witness ==
  /\ pc = "done"
  /\ op.name = "conductPeerReview"
  /\ result = Raised("not_enough_reviews")
  /\ Cardinality(reviews(calls)) = 1
  /\ store.peer_reviews = << >>

\* C19: the session store.get returns after store.set(id, s) equals s field
\* for field, every timestamp with the type and value it had.
C19_RoundTrip ==
  pc = "loaded" => result = session

\* C25: a round issues its three calls together; while the round is waiting
\* each step resolves one pending call and leaves the other two as they are;
\* the quorum decision, the score and the write to the store come only when
\* no call is pending.
C25_IssuedTogetherAndJoined ==
  [][/\ (pc = "loop" /\ pc' = "calls")
          => \A p \in Providers : calls'[p] = Pending
     /\ (pc = "calls" /\ pc' = "calls")
          => \E p \in Providers :
               /\ calls[p] = Pending
               /\ calls'[p] \in {Reply(p, round), ErrorResponse(p)}
               /\ \A q \in Providers \ {p} : calls'[q] = calls[q]
               /\ UNCHANGED <<session, store, result>>
     /\ (pc = "calls" /\ pc' # "calls")
          => \A p \in Providers :
               calls[p] \in {Reply(p, round), ErrorResponse(p)}]_vars

\* one call has failed, a later one has succeeded, the third is in flight
C25_Witness ==
  /\ pc = "calls"
  /\ calls["openai"] = ErrorResponse("openai")
  /\ calls["claude"] = Reply("claude", round)
  /\ calls["gemini"] = Pending
  /\ round = 2

\* C26: the stored rounds are numbered 1..N by position, and a step either
\* leaves the list alone or appends one round to it.
C26_RoundsContiguous ==
  [][store' # NoSession
       => /\ \A i \in 1..Len(store'.rounds) : store'.rounds[i].round_number = i
          /\ session' # NoSession
               => \A i \in 1..Len(session'.rounds) :
                    session'.rounds[i].round_number = i
          /\ store # NoSession
               => \/ store'.rounds = store.rounds
                  \/ /\ Len(store'.rounds) = Len(store.rounds) + 1
                     /\ SubSeq(store'.rounds, 1, Len(store.rounds)) = store.rounds]_vars

\* three rounds stored, the last ones appended by a continuation
C26_Witness ==
  /\ store # NoSession
  /\ Len(store.rounds) = 3
  /\ ops = 2
  /\ op.name \in Continuations
  /\ op.conducted >= 1

\* the sum of the positions the rankings give to label l, and the number of
\* times they rank it first
RECURSIVE PositionsOf(_, _)
PositionsOf(l, rankings) ==
  IF rankings = << >> THEN 0
  ELSE (IF Head(rankings).response_id = l THEN Head(rankings).position ELSE 0)
         + PositionsOf(l, Tail(rankings))
RECURSIVE FirstsOf(_, _)
FirstsOf(l, rankings) ==
  IF rankings = << >> THEN 0
  ELSE (IF Head(rankings).response_id = l /\ Head(rankings).position = 1
        THEN 1 ELSE 0) + FirstsOf(l, Tail(rankings))
RECURSIVE Flatten(_)
Flatten(revs) == IF revs = << >> THEN << >> ELSE Head(revs) \o Flatten(Tail(revs))

\* C21: per label the total is the sum of its positions and the votes its
\* number of first places over all reviews; the winner is the label of the
\* lowest total, the earlier of A, B, C on a tie; consensus_on_winner is
\* true exactly when the winner has at least two first places.
C21_Aggregation ==
  pc = "done" =>
    LET all == Flatten(op.reviews)
        index(l) == CHOOSE i \in 1..Len(Labels) : Labels[i] = l
        best == CHOOSE l \in LabelSet :
                  \A m \in LabelSet :
                    \/ PositionsOf(l, all) < PositionsOf(m, all)
                    \/ PositionsOf(l, all) = PositionsOf(m, all) /\ index(l) <= index(m)
    IN /\ \A i \in 1..Len(Labels) :
            LET row == result.aggregated_rankings[i]
            IN /\ row.total_score = PositionsOf(row.response_id, all)
               /\ row.votes_for_first = FirstsOf(row.response_id, all)
       /\ {result.aggregated_rankings[i].response_id : i \in 1..Len(Labels)} = LabelSet
       /\ result.aggregated_rankings[1].response_id = best
       /\ result.winner = op.responseMapping[best]
       /\ result.consensus_on_winner <=> FirstsOf(best, all) >= 2

\* three reviews whose totals tie between A and C: the winner is A, without
\* two first places
C21_Witness ==
  /\ pc = "done"
  /\ Len(op.reviews) = 3
  /\ result.aggregated_rankings[1].response_id = "A"
  /\ result.aggregated_rankings[2].response_id = "C"
  /\ result.aggregated_rankings[1].total_score = result.aggregated_rankings[2].total_score
  /\ result.aggregated_rankings[1].total_score > 0
  /\ ~result.consensus_on_winner

\* the labels a text mentions: its words A, B and C, each at its first
\* occurrence
MentionedLabels(words) ==
  LET RECURSIVE pick(_)
      pick(ws) == IF ws = << >> THEN << >>
                  ELSE IF Head(ws) \in {<<"A">>, <<"B">>, <<"C">>}
                  THEN <<Head(ws)[1]>> \o pick(Tail(ws))
                  ELSE pick(Tail(ws))
  IN uniqueIds(pick(words), {})

\* C22: parseReviewResponse returns a non-empty ranking; without a ranking
\* line the k-th label mentioned in the text gets position k, and a text
\* that mentions no label gets [A:1, B:2, C:3].
C22_FallbackByFirstMention ==
  pc = "done" =>
    LET labels == MentionedLabels(op.words)
    IN /\ result.outcome = "returned"
       /\ result.rankings # << >>
       /\ result.rankings =
            IF labels = << >> THEN DefaultRanking
            ELSE [k \in 1..Len(labels) |-> Rank(k, labels[k])]

\* C23: two runs that agree per label on sanitized content and confidence
\* send the same prompt, whatever identities the labels stand for.
C23_PromptHidesMapping ==
  pc = "done" => result.first.prompt = result.second.prompt

\* two runs with different mappings and different raw contents have sent
\* their prompts
C23_Witness ==
  /\ pc = "done"
  /\ result.first.responseMapping # result.second.responseMapping
  /\ op.first.responses # op.second.responses
  /\ op.first.responses["claude"].content = <<"claude">>
  /\ op.first.responses["gemini"].content = <<"as", "gemini", "yes">>

\* C24: a call that returns has resolved every label, and its winner, with
\* the mapping of its own shuffle.
C24_OwnMapping ==
  \A c \in ReviewCalls :
    (calls[c].stage = "done" /\ result[c].outcome = "returned")
      => LET own == anonymizeResponses(ReviewedRound, calls[c].shuffled).responseMapping
             rows == result[c].value.aggregated_rankings
         IN /\ \A i \in 1..Len(rows) :
                 rows[i].original_provider = own[rows[i].response_id]
            /\ result[c].value.winner = own[rows[1].response_id]

\* C27: every report has an integer resolvability_score from 1 to 10.
C27_ResolvabilityInRange ==
  pc = "done" => result.report.resolvability_score \in 1..10

\* C28: for any three responses the overall score of analyzeConsensus is
\* 0.35 semantic + 0.25 factual + 0.15 tonal + 0.10 structural
\* + 0.15 confidence alignment, and the five components and the overall
\* score lie between 0 and 1.
C28_WeightedSumInUnitRange ==
  pc = "done" =>
    LET b == result.breakdown
        c == b.components
    IN /\ b.overall_score = 35 * c.semantic_similarity
                              + 25 * c.factual_agreement
                              + 15 * c.tonal_alignment
                              + 10 * c.structural_similarity
                              + 15 * c.confidence_alignment
       /\ \A f \in DOMAIN c : c[f] \in 0..One
       /\ b.overall_score \in 0..(100 * One)

C28_Witness ==
  /\ pc = "done"
  /\ result.breakdown.components.semantic_similarity \in 1..(One - 1)
  /\ result.breakdown.components.factual_agreement = 0
  /\ result.breakdown.components.tonal_alignment < One
  /\ result.breakdown.components.structural_similarity < One
  /\ result.breakdown.components.confidence_alignment < One

C30_StoredScoreIsOverallScore ==
  pc = "done" =>
    100 * result.consensus_score = analyzeConsensus(op.responses).overall_score

\* C31: for a last round with three responses the type is factual when a
\* response holds a year or a truth-valued assertion, otherwise philosophical
\* when one holds a subjective or ethical marker, otherwise interpretive; the
\* score is 8, 6 or 4 for factual, interpretive, philosophical, plus 2 when
\* the mean confidence is below 60, minus 1 when it is above 85, kept in 1..10.
C31_TypeAndBaseline ==
  (pc = "done" /\ Len(op.rounds) > 0) =>
    LET last == op.rounds[Len(op.rounds)].responses
        factual == \E p \in Providers :
                     last[p].content \in {<<"in", "1999">>, <<"it", "is", "true">>}
        subjective == \E p \in Providers : last[p].content = <<"i", "think", "so">>
        type == IF factual THEN "factual"
                ELSE IF subjective THEN "philosophical" ELSE "interpretive"
        baseline == CASE type = "factual" -> 8
                      [] type = "interpretive" -> 6
                      [] type = "philosophical" -> 4
        total == last["openai"].confidence + last["gemini"].confidence
                   + last["claude"].confidence
        adjusted == baseline + (IF total < 3 * 60 THEN 2 ELSE 0)
                             - (IF total > 3 * 85 THEN 1 ELSE 0)
        expected == IF adjusted < 1 THEN 1 ELSE IF adjusted > 10 THEN 10 ELSE adjusted
    IN /\ result.report.disagreement_type = type
       /\ result.report.resolvability_score = expected

C31_Witness ==
  /\ pc = "done"
  /\ Len(op.rounds) > 0
  /\ result.report.disagreement_type = "philosophical"
  /\ result.report.resolvability_score = 6

\* C32: the Jaccard similarity of two keyword profiles is symmetric, lies
\* between 0 and 1, is 1 for two identical non-empty sets, 0 for two disjoint
\* non-empty sets and 0 for two empty sets; semantic_similarity is the mean
\* of the three pairwise values.
C32_JaccardLaws ==
  pc = "done" =>
    LET keywords == [p \in Providers |-> extractKeywords(op.responses[p].content)]
        J(a, b) == jaccardSimilarity(keywords[a], keywords[b])
    IN /\ \A a, b \in Providers :
            /\ J(a, b) = J(b, a)
            /\ J(a, b) \in 0..One
            /\ (keywords[a] = keywords[b] /\ keywords[a] # {}) => J(a, b) = One
            /\ (keywords[a] # {} /\ keywords[b] # {}
                  /\ keywords[a] \cap keywords[b] = {}) => J(a, b) = 0
            /\ (keywords[a] = {} /\ keywords[b] = {}) => J(a, b) = 0
       /\ 3 * result.breakdown.components.semantic_similarity
            <= J("openai", "claude") + J("openai", "gemini") + J("claude", "gemini")
       /\ 3 * result.breakdown.components.semantic_similarity + 3
            > J("openai", "claude") + J("openai", "gemini") + J("claude", "gemini")

C32_Witness ==
  /\ pc = "done"
  /\ extractKeywords(op.responses["openai"].content) = {"good", "risk"}
  /\ extractKeywords(op.responses["claude"].content) = {"good"}
  /\ extractKeywords(op.responses["gemini"].content) = {"2024"}
  /\ result.breakdown.components.semantic_similarity = One \div 6

\* C33: factual_agreement is 0.7 when the three fact sets are empty and
\* otherwise the number of distinct facts found in at least two of the three
\* sets divided by the number of distinct facts in their union; a fact that
\* only one participant mentions, the others mentioning none, gives 0.
C33_FactualAgreement ==
  pc = "done" =>
    LET Years == {"1999", "2024"}
        facts == [p \in Providers |->
                    {y \in Years : \E i \in DOMAIN op.responses[p].content :
                                     op.responses[p].content[i] = y}]
        union == UNION {facts[p] : p \in Providers}
        shared == {f \in union : \E p, q \in Providers : p # q /\ f \in facts[p] \cap facts[q]}
        agreement == result.breakdown.components.factual_agreement
    IN /\ union = {} => 10 * agreement = 7 * One
       /\ union # {} =>
            /\ Cardinality(union) * agreement <= Cardinality(shared) * One
            /\ Cardinality(union) * (agreement + 1) > Cardinality(shared) * One
       /\ (Cardinality(union) = 1 /\ shared = {}) => agreement = 0

C33_Witness ==
  /\ pc = "done"
  /\ op.responses["openai"].content = <<"1999", "2024">>
  /\ op.responses["gemini"].content = <<"1999">>
  /\ op.responses["claude"].content = <<"good">>
  /\ result.breakdown.components.factual_agreement = One \div 2

\* C34: for confidences in 0..100 the confidence alignment is 1 when the
\* three are equal, does not increase when the population standard deviation
\* increases, and is never below 0.
C34_AlignmentMonotone ==
  pc = "done" =>
    LET \* 27 times the variance: the sum of the squares of 3 * value - sum
        spread(c) ==
          LET sum == c.gpt + c.claude + c.gemini
          IN (3 * c.gpt - sum) * (3 * c.gpt - sum)
               + (3 * c.claude - sum) * (3 * c.claude - sum)
               + (3 * c.gemini - sum) * (3 * c.gemini - sum)
    IN /\ spread(op.first) = 0 => result.first = One
       /\ spread(op.first) < spread(op.second) => result.first >= result.second
       /\ result.first >= 0 /\ result.second >= 0

C34_Witness ==
  /\ pc = "done"
  /\ op.first = [gpt |-> 40, claude |-> 50, gemini |-> 50]
  /\ op.second = [gpt |-> 0, claude |-> 50, gemini |-> 100]
  /\ result.first > result.second
  /\ result.second > 0

\* C35: extractConfidence returns an integer from 0 to 100; a
\* percentage with a confidence word is returned clamped to 0..100; otherwise
\* the occurrences of certainty markers are compared with the occurrences of
\* hedge markers: 85 when certainty is larger, 60 when hedge is larger, 75
\* when they are equal.
C35_ByOccurrences ==
  pc = "done" =>
    LET ws == op.content
        percents == {i \in 1..Len(ws) : ws[i] \in {"70%", "250%", "1000%"}}
        explicit == percents # {} /\ \E i \in 1..Len(ws) : ws[i] \in {"sure", "certainly"}
        certainty == Cardinality({i \in 1..Len(ws) : ws[i] \in {"definitely", "certainly"}})
        hedge == Cardinality({i \in 1..Len(ws) : ws[i] \in {"maybe", "perhaps"}})
    IN /\ result.confidence \in 0..100
       /\ explicit => result.confidence \in {70, 100}
       /\ ~explicit => result.confidence = IF certainty > hedge THEN 85
                                           ELSE IF hedge > certainty THEN 60 ELSE 75

C37_RoundsWithinMaxRounds ==
  store # NoSession => Len(store.rounds) <= store.max_rounds

\* C38: the winner of a peer review is a label that some successful reviewer
\* ranked: a label that the parsed reviews leave unranked does not have the
\* lowest total and does not win.
C38_WinnerWasRanked ==
  pc = "done" =>
    \E i \in 1..Len(op.reviews) : \E k \in 1..Len(op.reviews[i]) :
      /\ op.reviews[i][k].response_id = result.aggregated_rankings[1].response_id
      /\ result.winner = op.responseMapping[op.reviews[i][k].response_id]

\* C39: a cleanup that runs while an operation writes a session removes no
\* file whose persisted updated_at is within olderThanMs at the moment of
\* the unlink, and it returns the number of files it removed.
C39_CleanupDeletesOnlyOld ==
  /\ op.name = "cleanup" =>
       \A i \in 1..Len(calls) : calls[i].at - calls[i].updated_at > op.olderThanMs
  /\ (pc = "done" /\ op.name = "cleanup") => result.deletedCount = Len(calls)

====
